---- MODULE Spec2Model ----
(***************************************************************************)
(* Model of the thread cache of the vendored discord client library        *)
(* (discord/threads.py): the Thread entity, its merge-on-update, its       *)
(* member map, the lazy member fetch and the edit operation.               *)
(*                                                                         *)
(* Python values are modelled as follows.  A dict is a function whose      *)
(* DOMAIN is the set of keys present.  An Optional value is <<>> for None  *)
(* and <<v>> for v.  Snowflakes arrive on the wire as decimal strings and  *)
(* are converted with int(); timestamps arrive as ISO-8601 strings and are *)
(* converted with parse_time().                                            *)
(***************************************************************************)
EXTENDS Integers, Sequences, FiniteSets, TLC

VARIABLES
    thread,     \* the cached Thread: slot name -> value
    inflight,   \* the update payload the gateway is delivering
    ndeliv,     \* how many times the payload in flight has been dispatched
    prev,       \* the thread as it was before the most recent dispatch
    rets        \* what each Thread._update so far returned, oldest first

updVars == <<thread, inflight, ndeliv, prev, rets>>

VARIABLES
    members,      \* Thread._members: user id -> ThreadMember
    prevMembers,  \* the member map before the most recent member operation
    lastOp,       \* the most recent member operation, its argument and result
    fpc,          \* where the fetch_members call stands
    future,       \* the event the waiter of fetch_members was resolved with
    elapsed,      \* time units since asyncio.wait_for began
    fresult,      \* how the fetch_members call ended
    memAtCall,    \* the member map when fetch_members was called
    evSince,      \* a member event changed the map since fetch_members was called
    gatewayUp     \* the gateway connection accepts and delivers frames

memVars ==
    <<members, prevMembers, lastOp, fpc, future, elapsed, fresult, memAtCall,
      evSince, gatewayUp>>

VARIABLES
    epc,        \* where the Thread.edit call stands
    eargs,      \* the keyword arguments the caller supplied to Thread.edit
    ereq,       \* the edit_channel request awaiting its response
    eresult,    \* how the Thread.edit call ended
    nreq        \* HTTP requests issued so far

editVars == <<epc, eargs, ereq, eresult, nreq>>

VARIABLES
    urun,       \* Thread._update is on the stack of the running task
    upc,        \* the stages of Thread._update completed so far
    committed,  \* the states of the thread before and after each whole update
    observed    \* the thread as another task last read it

loopVars == <<urun, upc, committed, observed>>

VARIABLES
    rpc,        \* where the join, leave, add_user, remove_user or delete call stands
    rcall,      \* the method called and the user it was called with
    rreqs,      \* the HTTP requests the call has issued, oldest first
    rhttp,      \* what the HTTP layer answered the call's request with
    rresult,    \* how the call ended for its caller
    cacheAtCall \* the cached thread and member map when the call was made

restVars == <<rpc, rcall, rreqs, rhttp, rresult, cacheAtCall>>

coreVars == <<updVars, memVars, editVars, loopVars>>

VARIABLES
    ppc,        \* where the Thread.purge call stands
    plimit,     \* the limit argument of the call
    phistory,   \* the messages of the thread the history iterator walks
    ppos,       \* how many messages the iterator has yielded
    pret,       \* the local list ret
    pcount,     \* the local counter count
    pcalls,     \* the lists handed to state._delete_messages, oldest first
    pawait,     \* the await of state._delete_messages purge is suspended in:
                \* "flush" (line 497), "final" (line 508) or "" for neither
    praised     \* the exception purge ended with, "" for none

purgeVars == <<ppc, plimit, phistory, ppos, pret, pcount, pcalls, pawait, praised>>

VARIABLES
    gstate,        \* the state of the gateway session state machine
    gsession,      \* the session id captured at ready
    gseq,          \* the last observed sequence number
    gstore,        \* the Entity Store: entity id -> entity
    gdrops,        \* the sequence numbers of the dropped events, oldest first
    gdelivered,    \* the sequence numbers handed to dispatch, oldest first
    gunacked,      \* a heartbeat was sent and its ack has not arrived
    gmisses,       \* consecutive heartbeats sent without a prior ack
    glast,         \* the most recent step and the session as it was before it
    gpath,         \* the last three states of the machine, oldest first
    gstoreAtClose, \* the Entity Store when the connection was last lost
    greplayed      \* the entities events replayed since then have touched

gwVars ==
    <<gstate, gsession, gseq, gstore, gdrops, gdelivered, gunacked, gmisses,
      glast, gpath, gstoreAtClose, greplayed>>

VARIABLES
    rlnow,      \* the clock
    rlbucket,   \* the bucket: remaining quota, reset time, last-known limit
    rlbucket0,  \* the bucket as it was at the start
    rlpc,       \* caller -> where its acquire call stands
    rlasked,    \* caller -> when it called acquire
    rlgranted,  \* caller -> when it got its permit
    rlused      \* permits granted in the bucket's current window

rlVars == <<rlnow, rlbucket, rlbucket0, rlpc, rlasked, rlgranted, rlused>>

VARIABLES
    answered    \* a matching list event was dispatched since the request left

raceVars == <<answered>>

VARIABLES
    pin,        \* the arguments a pure function is called with
    pout        \* what the calls made so far returned

pureVars == <<pin, pout>>

VARIABLES
    snap        \* the old copy Thread._update last returned and the member map
                \* it gave access to when it was returned

snapVars == <<snap>>

VARIABLES
    channels    \* the channel cache of the thread's guild: channel id -> channel

guildVars == <<channels>>

besideRest ==
    <<purgeVars, gwVars, rlVars, pureVars, raceVars, snapVars, guildVars>>

besidePurge ==
    <<restVars, gwVars, rlVars, pureVars, raceVars, snapVars, guildVars>>

besideGateway ==
    <<restVars, purgeVars, rlVars, pureVars, raceVars, snapVars, guildVars>>

besideRate ==
    <<restVars, purgeVars, gwVars, pureVars, raceVars, snapVars, guildVars>>

besidePure ==
    <<restVars, purgeVars, gwVars, rlVars, raceVars, snapVars, guildVars>>

besideFetch ==
    <<restVars, purgeVars, gwVars, rlVars, pureVars, snapVars, guildVars>>

besideSnapshot ==
    <<restVars, purgeVars, gwVars, rlVars, pureVars, raceVars, guildVars>>

extVars ==
    <<restVars, purgeVars, gwVars, rlVars, pureVars, raceVars, snapVars, guildVars>>

vars == <<coreVars, extVars>>

(***************************************************************************)
(* Python values                                                           *)
(***************************************************************************)
None == <<>>

Some(v) == <<v>>

\* dict.get(key, default)
Get(d, k, default) == IF k \in DOMAIN d THEN d[k] ELSE default

\* int() on the decimal strings the model uses for snowflakes
IntOf ==
    "1" :> 1 @@ "2" :> 2 @@ "3" :> 3 @@ "40" :> 40 @@ "50" :> 50
    @@ "101" :> 101 @@ "102" :> 102

\* datetime.fromisoformat on the ISO strings the model uses, as minutes
\* after 2022-01-01T00:00:00+00:00
IsoMinutes ==
    "2022-01-09T00:00:00+00:00" :> 11520
    @@ "2022-01-10T12:00:00+00:00" :> 13680
    @@ "2022-01-11T00:00:00+00:00" :> 14400

\* utils.parse_time: None for a missing or empty timestamp
parse_time(ts) == IF ts = None THEN None ELSE Some(IsoMinutes[ts[1]])

\* utils._get_as_snowflake: None for a missing key, else int(value)
_get_as_snowflake(d, k) == IF k \in DOMAIN d THEN Some(IntOf[d[k]]) ELSE None

\* the attributes of the enum classes' bodies, in declaration order
\* (ChannelType, MessageType, VerificationLevel, ContentFilter,
\* FriendFlags, NotificationLevel, NSFWLevel, ApplicationVerificationState,
\* StoreApplicationState, RPCApplicationState)
EnumAttrs ==
    "ChannelType" :>
        << <<"text", 0>>, <<"private", 1>>, <<"voice", 2>>, <<"group", 3>>,
           <<"category", 4>>, <<"news", 5>>, <<"store", 6>>,
           <<"news_thread", 10>>, <<"public_thread", 11>>,
           <<"private_thread", 12>>, <<"stage_voice", 13>> >>
    @@ "MessageType" :>
        << <<"default", 0>>, <<"recipient_add", 1>>, <<"recipient_remove", 2>>,
           <<"call", 3>>, <<"channel_name_change", 4>>,
           <<"channel_icon_change", 5>>, <<"channel_pinned_message", 6>>,
           <<"pins_add", 6>>, <<"member_join", 7>>, <<"user_join", 7>>,
           <<"new_member", 7>>, <<"premium_guild_subscription", 8>>,
           <<"premium_guild_tier_1", 9>>, <<"premium_guild_tier_2", 10>>,
           <<"premium_guild_tier_3", 11>>, <<"channel_follow_add", 12>>,
           <<"guild_stream", 13>>, <<"guild_discovery_disqualified", 14>>,
           <<"guild_discovery_requalified", 15>>,
           <<"guild_discovery_grace_period_initial_warning", 16>>,
           <<"guild_discovery_grace_period_final_warning", 17>>,
           <<"thread_created", 18>>, <<"reply", 19>>,
           <<"chat_input_command", 20>>, <<"thread_starter_message", 21>>,
           <<"guild_invite_reminder", 22>>, <<"context_menu_command", 23>> >>
    @@ "VerificationLevel" :>
        << <<"none", 0>>, <<"low", 1>>, <<"medium", 2>>, <<"high", 3>>,
           <<"highest", 4>> >>
    @@ "ContentFilter" :>
        << <<"disabled", 0>>, <<"no_role", 1>>, <<"all_members", 2>> >>
    @@ "NotificationLevel" :>
        << <<"all_messages", 0>>, <<"all", 0>>, <<"only_mentions", 1>>,
           <<"nothing", 2>>, <<"none", 2>>, <<"server_default", 3>>,
           <<"default", 3>> >>
    @@ "FriendFlags" :>
        << <<"noone", 0>>, <<"mutual_guilds", 1>>, <<"mutual_friends", 2>>,
           <<"guild_and_friends", 3>>, <<"everyone", 4>> >>
    @@ "NSFWLevel" :>
        << <<"default", 0>>, <<"explicit", 1>>, <<"safe", 2>>,
           <<"age_restricted", 3>> >>
    @@ "ApplicationVerificationState" :>
        << <<"ineligible", 1>>, <<"unsubmitted", 2>>, <<"submitted", 3>>,
           <<"succeeded", 4>> >>
    @@ "StoreApplicationState" :>
        << <<"none", 1>>, <<"paid", 2>>, <<"submitted", 3>>,
           <<"approved", 4>>, <<"rejected", 5>>, <<"blocked", 6>> >>
    @@ "RPCApplicationState" :>
        << <<"disabled", 0>>, <<"none", 0>>, <<"unsubmitted", 1>>,
           <<"submitted", 2>>, <<"approved", 3>>, <<"rejected", 4>> >>

EnumClasses == DOMAIN EnumAttrs

\* the enum classes declared with comparable=True
ComparableEnums ==
    {"VerificationLevel", "ContentFilter", "NotificationLevel", "NSFWLevel",
     "ApplicationVerificationState", "StoreApplicationState",
     "RPCApplicationState"}

\* EnumMeta.__new__: value_mapping, the first-declared member of each value;
\* a member is a named tuple of its value class, which knows its enum class
_enum_value_map_(cls) ==
    LET attrs == EnumAttrs[cls]
        first(v) == CHOOSE i \in DOMAIN attrs :
                        /\ attrs[i][2] = v
                        /\ \A j \in 1..(i - 1) : attrs[j][2] # v
    IN  [v \in {attrs[i][2] : i \in DOMAIN attrs} |->
            [cls |-> cls, name |-> attrs[first(v)][1], value |-> v]]

\* a proxy whose name does not carry the value
create_unknown_value_Bare(cls, val) ==
    [cls |-> cls, name |-> "unknown_", value |-> val]

\* enums.create_unknown_value
create_unknown_value(cls, val) ==
    [cls |-> cls, name |-> "unknown_" \o ToString(val), value |-> val]

\* enums.try_enum: the KeyError of the lookup is caught
try_enum(cls, val) ==
    IF val \in DOMAIN _enum_value_map_(cls) THEN _enum_value_map_(cls)[val]
    ELSE create_unknown_value(cls, val)

\* EnumMeta.__instancecheck__: isinstance(instance, cls)
__instancecheck__(cls, instance) ==
    "cls" \in DOMAIN instance /\ instance.cls = cls

\* enums.try_enum(ChannelType, value)
try_enum_ChannelType(v) == try_enum("ChannelType", v)

(***************************************************************************)
(* Thread                                                                  *)
(***************************************************************************)
\* Thread.__slots__, in declaration order
Slots ==
    << "name", "id", "guild", "_type", "_state", "_members", "owner_id",
       "parent_id", "last_message_id", "message_count", "member_count",
       "slowmode_delay", "locked", "archived", "invitable",
       "auto_archive_duration", "archive_timestamp", "_member_ids",
       "_created_at" >>

SlotSet == {Slots[i] : i \in 1..Len(Slots)}

\* Thread._unroll_metadata
_unroll_metadata(t, data) ==
    [t EXCEPT
        !["archived"] = data["archived"],
        !["auto_archive_duration"] = data["auto_archive_duration"],
        !["archive_timestamp"] = parse_time(Some(data["archive_timestamp"])),
        !["_created_at"] =
            parse_time(IF "creation_timestamp" \in DOMAIN data
                       THEN Some(data["creation_timestamp"]) ELSE None),
        !["locked"] = Get(data, "locked", FALSE),
        !["invitable"] = Get(data, "invitable", TRUE)]

\* Thread.__init__ followed by Thread._from_data, without the 'member' key
\* (the member map lives in its own variable)
_from_data(data) ==
    LET t0 == [s \in SlotSet |-> None]
        t1 == [t0 EXCEPT
                 !["_state"] = "state",
                 !["guild"] = "guild",
                 !["_members"] = "members",
                 !["id"] = IntOf[data["id"]],
                 !["parent_id"] = IntOf[data["parent_id"]],
                 !["owner_id"] = IntOf[data["owner_id"]],
                 !["name"] = data["name"],
                 !["_type"] = try_enum_ChannelType(data["type"]),
                 !["last_message_id"] = _get_as_snowflake(data, "last_message_id"),
                 !["slowmode_delay"] = Get(data, "rate_limit_per_user", 0),
                 !["message_count"] = data["message_count"],
                 !["member_count"] = data["member_count"],
                 !["_member_ids"] = data["member_ids_preview"]]
    IN  _unroll_metadata(t1, data["thread_metadata"])

\* mutant: the counters are compared too
ExcludedSubstrings_NoCount == {"member", "guild", "state"}

\* The substrings whose presence in a slot name keeps the slot out of the
\* comparison of line 207
ExcludedSubstrings == {"member", "guild", "state", "count"}

\* Which of those substrings each slot name contains ('y in x')
SubstringsOf(slot) ==
    CASE slot \in {"_members", "_member_ids"} -> {"member"}
      [] slot = "member_count" -> {"member", "count"}
      [] slot = "message_count" -> {"count"}
      [] slot = "guild" -> {"guild"}
      [] slot = "_state" -> {"state"}
      [] OTHER -> {}

\* attrs of line 207
DiffAttrs == {x \in SlotSet : SubstringsOf(x) \cap ExcludedSubstrings = {}}

\* The assignments of Thread._update, lines 192-205, one stage per statement
UpdateStages == 7

UpdateStage(i, t, data) ==
    CASE i = 1 ->
           [t EXCEPT !["slowmode_delay"] = Get(data, "rate_limit_per_user", 0)]
      [] i = 2 ->
           IF "thread_metadata" \in DOMAIN data
           THEN _unroll_metadata(t, data["thread_metadata"]) ELSE t
      [] i = 3 ->
           IF "name" \in DOMAIN data
           THEN [t EXCEPT !["name"] = data["name"]] ELSE t
      [] i = 4 ->
           IF _get_as_snowflake(data, "last_message_id") # None
           THEN [t EXCEPT !["last_message_id"] =
                              _get_as_snowflake(data, "last_message_id")]
           ELSE t
      [] i = 5 ->
           IF "message_count" \in DOMAIN data
           THEN [t EXCEPT !["message_count"] = data["message_count"]] ELSE t
      [] i = 6 ->
           IF "member_count" \in DOMAIN data
           THEN [t EXCEPT !["member_count"] = data["member_count"]] ELSE t
      [] i = 7 ->
           IF "member_ids_preview" \in DOMAIN data
           THEN [t EXCEPT !["_member_ids"] = data["member_ids_preview"]] ELSE t

RECURSIVE UpdateThrough(_, _, _)
\* the thread after stages 1..i
UpdateThrough(i, t, data) ==
    IF i = 0 THEN t ELSE UpdateStage(i, UpdateThrough(i - 1, t, data), data)

\* mutant: the old copy is returned whatever the comparison says
UpdateResult_AlwaysOld(old, new) == Some(old)

\* lines 207-210: the old copy when a compared attribute differs, else None
UpdateResult(old, new) ==
    IF \E attr \in DiffAttrs : new[attr] # old[attr] THEN Some(old) ELSE None

\* Thread._update: the thread afterwards and the value returned
_update(t, data) ==
    LET new == UpdateThrough(UpdateStages, t, data)
    IN  [thread |-> new, ret |-> UpdateResult(t, new)]

(***************************************************************************)
(* Payloads                                                                *)
(***************************************************************************)
\* the keys present are those chosen with a value
Opt(S) == {None} \cup {Some(v) : v \in S}

MakeDict(choice) ==
    [k \in {k \in DOMAIN choice : choice[k] # None} |-> choice[k][1]]

\* thread_metadata objects: archived, auto_archive_duration and
\* archive_timestamp are always sent; the other keys are optional
MetadataOf(archivedVals, durations, stamps) ==
    { MakeDict("locked" :> lk @@ "invitable" :> iv @@ "creation_timestamp" :> ct)
        @@ ("archived" :> ar @@ "auto_archive_duration" :> du
            @@ "archive_timestamp" :> st) :
        ar \in archivedVals, du \in durations, st \in stamps,
        lk \in Opt(BOOLEAN), iv \in Opt(BOOLEAN),
        ct \in Opt({"2022-01-09T00:00:00+00:00"}) }

UpdateMetadata ==
    MetadataOf(BOOLEAN, {1440}, {"2022-01-11T00:00:00+00:00"})

\* the payloads of a thread update event
UpdatePayloads ==
    { MakeDict("rate_limit_per_user" :> rl @@ "name" :> nm
               @@ "last_message_id" :> lm @@ "message_count" :> mc
               @@ "member_count" :> uc @@ "member_ids_preview" :> ids
               @@ "thread_metadata" :> md) :
        rl \in Opt({0, 10}), nm \in Opt({"renamed"}), lm \in Opt({"102"}),
        mc \in Opt({7}), uc \in Opt({4}), ids \in Opt({<<"2", "3">>}),
        md \in Opt(UpdateMetadata) }

\* the payloads a cached thread was created from
CreatePayloads ==
    { MakeDict("rate_limit_per_user" :> rl @@ "last_message_id" :> lm)
        @@ ("id" :> "40" @@ "parent_id" :> "50" @@ "owner_id" :> "2"
            @@ "name" :> nm @@ "type" :> 11 @@ "message_count" :> 3
            @@ "member_count" :> 2 @@ "member_ids_preview" :> <<"2">>
            @@ "thread_metadata" :> md) :
        rl \in Opt({5}), lm \in Opt({"101"}), nm \in {"general"},
        md \in { m \in MetadataOf(BOOLEAN, {60}, {"2022-01-10T12:00:00+00:00"}) :
                   /\ ("locked" \in DOMAIN m) = ("invitable" \in DOMAIN m)
                   /\ "locked" \in DOMAIN m => m["locked"] /\ ~m["invitable"]
                   /\ ("locked" \in DOMAIN m) = ("creation_timestamp" \in DOMAIN m) } }

\* the member map and fetch_members at rest
NoOp == [op |-> "", arg |-> None, ret |-> None, raised |-> ""]

MemQuiet ==
    /\ members = <<>>
    /\ prevMembers = <<>>
    /\ lastOp = NoOp
    /\ fpc = "idle"
    /\ future = None
    /\ elapsed = 0
    /\ fresult = None
    /\ memAtCall = <<>>
    /\ evSince = FALSE
    /\ gatewayUp = TRUE

\* Thread.edit at rest
EditQuiet ==
    /\ epc = "idle"
    /\ eargs = <<>>
    /\ ereq = None
    /\ eresult = None
    /\ nreq = 0

\* no task inside Thread._update, nothing read yet
LoopQuiet ==
    /\ urun = FALSE
    /\ upc = 0
    /\ committed = {}
    /\ observed = None

\* no join, leave, add_user, remove_user or delete call made yet
RestQuiet ==
    /\ rpc = "idle"
    /\ rcall = <<>>
    /\ rreqs = <<>>
    /\ rhttp = None
    /\ rresult = None
    /\ cacheAtCall = <<>>

\* no purge call made yet
PurgeQuiet ==
    /\ ppc = "idle"
    /\ plimit = None
    /\ phistory = <<>>
    /\ ppos = 0
    /\ pret = <<>>
    /\ pcount = 0
    /\ pcalls = <<>>
    /\ pawait = ""
    /\ praised = ""

\* no gateway session yet
GatewayQuiet ==
    /\ gstate = "Disconnected"
    /\ gsession = None
    /\ gseq = None
    /\ gstore = <<>>
    /\ gdrops = <<>>
    /\ gdelivered = <<>>
    /\ gunacked = FALSE
    /\ gmisses = 0
    /\ glast = None
    /\ gpath = <<"Disconnected">>
    /\ gstoreAtClose = <<>>
    /\ greplayed = {}

\* a full bucket nobody has asked a permit of
RateQuiet ==
    /\ rlnow = 0
    /\ rlbucket = [remaining |-> 1, reset |-> 1, limit |-> 1]
    /\ rlbucket0 = rlbucket
    /\ rlpc = <<>>
    /\ rlasked = <<>>
    /\ rlgranted = <<>>
    /\ rlused = 0

\* no pure function under evaluation
PureQuiet ==
    /\ pin = <<>>
    /\ pout = <<>>

(***************************************************************************)
(* The channel cache of the thread's guild                                 *)
(***************************************************************************)
\* the ids under which the guild may have cached a channel: the thread's
\* parent_id and the id of an unrelated channel
ChannelIds == {50, 77}

\* the objects permissions_for may be asked about
PermissionSubjects == {"member", "role"}

\* a cached text channel, as far as the thread's accessors read it: its
\* category, whether it is NSFW, and the permissions it resolves
TextChannels ==
    [ category_id : {None, Some(9)},
      nsfw : BOOLEAN,
      permissions : [PermissionSubjects -> {0, 8}] ]

\* the value of channel.category: the category channel whose id is
\* category_id, when it has one
CategoryOf(ch) ==
    IF ch.category_id = None THEN None
    ELSE Some([id |-> ch.category_id[1], type |-> "category"])

\* the guild's channel cache
ChannelCaches ==
    UNION {[ids -> TextChannels] : ids \in SUBSET ChannelIds}

\* Guild.get_channel: the cached channel of that id, or None
get_channel(guild, id) ==
    IF id \in DOMAIN guild THEN Some(guild[id]) ELSE None

\* lines 217-224
parent(t, guild) == get_channel(guild, t["parent_id"])

\* the channel of the thread's parent_id, with no category
PlainChannel ==
    [category_id |-> None, nsfw |-> FALSE,
     permissions |-> [o \in PermissionSubjects |-> 0]]

\* the channel caches fetch_members is called under: any of the channel ids
\* cached or not
FetchGuilds ==
    {[id \in ids |-> PlainChannel] : ids \in SUBSET ChannelIds}

\* the guild has the thread's parent channel cached
GuildQuiet ==
    /\ channels = (50 :> PlainChannel)

\* no request of fetch_members has left
RaceQuiet ==
    /\ answered = FALSE

\* Thread._update has returned no old copy yet
SnapQuiet ==
    /\ snap = None

ExtQuiet ==
    /\ RestQuiet
    /\ PurgeQuiet
    /\ GatewayQuiet
    /\ RateQuiet
    /\ PureQuiet
    /\ RaceQuiet
    /\ GuildQuiet
    /\ SnapQuiet

(***************************************************************************)
(* Delivery of one update payload to a cached thread                       *)
(***************************************************************************)
\* how often the gateway may deliver the same payload
MaxDeliveries == 2

InitUpdate ==
    /\ thread \in {_from_data(c) : c \in CreatePayloads}
    /\ inflight \in UpdatePayloads
    /\ ndeliv = 0
    /\ prev = thread
    /\ rets = <<>>
    /\ MemQuiet
    /\ EditQuiet
    /\ LoopQuiet
    /\ ExtQuiet

\* the dispatcher hands the payload in flight to Thread._update
Dispatch ==
    /\ ndeliv < MaxDeliveries
    /\ LET r == _update(thread, inflight)
       IN  /\ thread' = r.thread
           /\ rets' = Append(rets, r.ret)
    /\ prev' = thread
    /\ ndeliv' = ndeliv + 1
    /\ UNCHANGED inflight
    /\ UNCHANGED <<memVars, editVars, loopVars, extVars>>

NextUpdate == Dispatch

SpecUpdate == InitUpdate /\ [][NextUpdate]_vars

(***************************************************************************)
(* ThreadMember and the member map                                         *)
(***************************************************************************)
\* ConnectionState.self_id, the id of the local user
SelfId == IntOf["1"]

\* the ids of the users the guild's member cache holds
CachedGuildMembers == {2}

\* ThreadMember.__init__ / ThreadMember._from_data: the member built, or the
\* exception raised
ThreadMember_from_data(data, parentId, selfId, guildMemberIds) ==
    LET id0 == IF "user_id" \in DOMAIN data THEN IntOf[data["user_id"]] ELSE selfId
        tid == IF "id" \in DOMAIN data THEN IntOf[data["id"]] ELSE parentId
        joined == parse_time(IF "join_timestamp" \in DOMAIN data
                             THEN Some(data["join_timestamp"]) ELSE None)
        flags == IF "flags" \in DOMAIN data THEN Some(data["flags"]) ELSE None
        built == [id |-> id0, thread_id |-> tid, joined_at |-> joined,
                  flags |-> flags]
    IN  IF "member" \in DOMAIN data
        THEN IF "user_id" \in DOMAIN data
             THEN [raised |-> "", member |-> Some(built),
                   route |-> IF id0 \in guildMemberIds
                             THEN "parse_guild_member_update"
                             ELSE "parse_guild_member_add"]
             ELSE [raised |-> "KeyError", member |-> None, route |-> ""]
        ELSE [raised |-> "", member |-> Some(built), route |-> ""]

\* Thread.me (getter)
me(ms, selfId) == IF selfId \in DOMAIN ms THEN Some(ms[selfId]) ELSE None

\* Thread.me (setter)
me_setter(ms, member) == (member.id :> member) @@ ms

\* mutant: the local user's id is not checked
_add_member_Unguarded(ms, member, selfId) == (member.id :> member) @@ ms

\* Thread._add_member
_add_member(ms, member, selfId) ==
    IF member.id # selfId THEN (member.id :> member) @@ ms ELSE ms

\* mutant: a missing id raises instead of returning the default
_pop_member_NoDefault(ms, memberId) ==
    IF memberId \in DOMAIN ms
    THEN [members |-> [k \in DOMAIN ms \ {memberId} |-> ms[k]],
          ret |-> Some(ms[memberId]), raised |-> ""]
    ELSE [members |-> ms, ret |-> None, raised |-> "KeyError"]

\* Thread._pop_member: dict.pop(member_id, None)
_pop_member(ms, memberId) ==
    IF memberId \in DOMAIN ms
    THEN [members |-> [k \in DOMAIN ms \ {memberId} |-> ms[k]],
          ret |-> Some(ms[memberId]), raised |-> ""]
    ELSE [members |-> ms, ret |-> None, raised |-> ""]

\* Thread.members
MemberList(ms) == {ms[k] : k \in DOMAIN ms}

RECURSIVE BuildMembers(_, _, _)
\* line 682: the ThreadMember for each entry of data['members'], or the first
\* exception raised while building them
BuildMembers(list, parentId, selfId) ==
    IF list = <<>> THEN [raised |-> "", built |-> <<>>]
    ELSE LET m == ThreadMember_from_data("member" :> Head(list), parentId,
                                         selfId, CachedGuildMembers)
             rest == BuildMembers(Tail(list), parentId, selfId)
         IN  IF m.raised # "" THEN [raised |-> m.raised, built |-> <<>>]
             ELSE IF rest.raised # "" THEN rest
             ELSE [raised |-> "", built |-> <<m.member[1]>> \o rest.built]

RECURSIVE AddAll(_, _, _)
\* lines 683-684
AddAll(ms, built, selfId) ==
    IF built = <<>> THEN ms
    ELSE AddAll(_add_member(ms, Head(built), selfId), Tail(built), selfId)

(***************************************************************************)
(* Member events and fetch_members                                         *)
(***************************************************************************)
\* the largest flags value of a thread member payload
MaxFlags == 1

\* the longest member list of a thread_member_list_update event
MaxListLen == 1

UserIdStrings == {"1", "2"}

\* thread member payloads of member events
MemberPayloads ==
    { MakeDict("user_id" :> u) @@ ("flags" :> f) :
        u \in Opt(UserIdStrings), f \in 0..MaxFlags }

\* guild member objects of a member list
GuildMemberObjects == { "user" :> ("id" :> u) : u \in UserIdStrings }

MemberLists ==
    UNION { [1..n -> GuildMemberObjects] : n \in 0..MaxListLen }

\* thread_member_list_update events
ListEvents ==
    { "thread_id" :> tid @@ "members" :> l :
        tid \in {"40", "50"}, l \in MemberLists }

\* asyncio.wait_for(future, timeout=15)
Timeout == 15

UpdQuiet ==
    /\ thread = _from_data(CHOOSE c \in CreatePayloads :
                               /\ "rate_limit_per_user" \in DOMAIN c
                               /\ "last_message_id" \in DOMAIN c
                               /\ "locked" \in DOMAIN c["thread_metadata"]
                               /\ ~c["thread_metadata"]["archived"])
    /\ inflight = <<>>
    /\ ndeliv = 0
    /\ prev = thread
    /\ rets = <<>>

\* a thread created with or without the 'member' key (lines 175-180)
InitMembers ==
    /\ UpdQuiet
    /\ \E withMe \in BOOLEAN :
          members =
              IF withMe
              THEN me_setter(<<>>,
                       ThreadMember_from_data("flags" :> 0, thread["id"], SelfId,
                                              CachedGuildMembers).member[1])
              ELSE <<>>
    /\ prevMembers = members
    /\ lastOp = NoOp
    /\ fpc = "idle"
    /\ future = None
    /\ elapsed = 0
    /\ fresult = None
    /\ memAtCall = members
    /\ evSince = FALSE
    /\ gatewayUp = TRUE
    /\ EditQuiet
    /\ LoopQuiet
    /\ RestQuiet
    /\ PurgeQuiet
    /\ GatewayQuiet
    /\ RateQuiet
    /\ PureQuiet
    /\ RaceQuiet
    /\ SnapQuiet
    /\ channels \in FetchGuilds

\* a fetch_members call whose outcome the caller has not yet received
CallOpen == fpc # "idle"

\* a dispatched member event hands a new ThreadMember to Thread._add_member
AddMemberEvent(data) ==
    /\ gatewayUp
    /\ LET m == ThreadMember_from_data(data, thread["id"], SelfId,
                                       CachedGuildMembers).member[1]
       IN  /\ members' = _add_member(members, m, SelfId)
           /\ lastOp' = [op |-> "_add_member", arg |-> Some(m), ret |-> None,
                         raised |-> ""]
    /\ prevMembers' = members
    /\ evSince' = (evSince \/ (CallOpen /\ members' # members))
    /\ UNCHANGED <<fpc, future, elapsed, fresult, memAtCall, gatewayUp>>
    /\ UNCHANGED <<updVars, editVars, loopVars, extVars>>

\* a dispatched member event hands a removed user id to Thread._pop_member
PopMemberEvent(id) ==
    /\ gatewayUp
    /\ LET r == _pop_member(members, id)
       IN  /\ members' = r.members
           /\ lastOp' = [op |-> "_pop_member", arg |-> Some(id), ret |-> r.ret,
                         raised |-> r.raised]
    /\ prevMembers' = members
    /\ evSince' = (evSince \/ (CallOpen /\ members' # members))
    /\ UNCHANGED <<fpc, future, elapsed, fresult, memAtCall, gatewayUp>>
    /\ UNCHANGED <<updVars, editVars, loopVars, extVars>>

\* fetch_members, lines 674-675: self.parent.guild.id is evaluated first;
\* with the parent channel not cached self.parent is None and the call ends
\* at once with AttributeError, nothing sent and no waiter registered;
\* otherwise the call starts sending the request
FetchCall ==
    /\ fpc = "idle"
    /\ IF parent(thread, channels) = None
       THEN /\ fpc' = "done"
            /\ fresult' = [kind |-> "AttributeError", value |-> {}]
       ELSE /\ fpc' = "sending"
            /\ fresult' = None
    /\ memAtCall' = members
    /\ evSince' = FALSE
    /\ future' = None
    /\ elapsed' = 0
    /\ answered' = FALSE
    /\ UNCHANGED <<members, prevMembers, lastOp, gatewayUp>>
    /\ UNCHANGED <<updVars, editVars, loopVars, besideFetch>>

\* line 675: the request frame leaves while fetch_members is suspended in
\* the await of request_lazy_guild
RequestWritten ==
    /\ fpc = "sending"
    /\ gatewayUp
    /\ fpc' = "sent"
    /\ UNCHANGED <<members, prevMembers, lastOp, future, elapsed, fresult,
                   memAtCall, evSince, gatewayUp>>
    /\ UNCHANGED <<updVars, editVars, loopVars, extVars>>

\* lines 675-678: the await returns; the waiter is registered and
\* asyncio.wait_for starts its timeout
FetchSent ==
    /\ fpc = "sent"
    /\ fpc' = "waiting"
    /\ elapsed' = 0
    /\ UNCHANGED <<members, prevMembers, lastOp, future, fresult, memAtCall,
                   evSince, gatewayUp>>
    /\ UNCHANGED <<updVars, editVars, loopVars, extVars>>

\* one time unit passes while asyncio.wait_for is waiting
Tick ==
    /\ fpc = "waiting"
    /\ elapsed < Timeout
    /\ elapsed' = elapsed + 1
    /\ UNCHANGED <<members, prevMembers, lastOp, fpc, future, fresult,
                   memAtCall, evSince, gatewayUp>>
    /\ UNCHANGED <<updVars, editVars, loopVars, extVars>>

\* line 676: the waiter's predicate
WaiterMatches(d, t) == IntOf[d["thread_id"]] = t["id"]

\* a thread_member_list_update event is dispatched after the request left; a
\* registered waiter whose predicate matches is resolved with it, and without
\* a registered waiter the event reaches no one
ListEventArrives(d) ==
    /\ gatewayUp
    /\ fpc \in {"sent", "waiting"}
    /\ IF fpc = "waiting" /\ WaiterMatches(d, thread)
       THEN fpc' = "resolved" /\ future' = Some(d)
       ELSE UNCHANGED <<fpc, future>>
    /\ answered' = (answered \/ WaiterMatches(d, thread))
    /\ UNCHANGED <<members, prevMembers, lastOp, elapsed, fresult, memAtCall,
                   evSince, gatewayUp>>
    /\ UNCHANGED <<updVars, editVars, loopVars, besideFetch>>

\* lines 679-680: asyncio.TimeoutError becomes InvalidData
FetchTimeout ==
    /\ fpc = "waiting"
    /\ elapsed = Timeout
    /\ fpc' = "done"
    /\ fresult' = [kind |-> "InvalidData", value |-> {}]
    /\ UNCHANGED <<members, prevMembers, lastOp, future, elapsed, memAtCall,
                   evSince, gatewayUp>>
    /\ UNCHANGED <<updVars, editVars, loopVars, extVars>>

\* lines 682-686: the members of the event are built and added, and the
\* member list is returned
FetchResume ==
    /\ fpc = "resolved"
    /\ LET b == BuildMembers(future[1]["members"], thread["id"], SelfId)
       IN  IF b.raised # ""
           THEN /\ fresult' = [kind |-> b.raised, value |-> {}]
                /\ UNCHANGED <<members, prevMembers, lastOp>>
           ELSE /\ members' = AddAll(members, b.built, SelfId)
                /\ prevMembers' = members
                /\ lastOp' = [op |-> "fetch_members", arg |-> future, ret |-> None,
                              raised |-> ""]
                /\ fresult' = [kind |-> "ok", value |-> MemberList(members')]
    /\ fpc' = "done"
    /\ UNCHANGED <<future, elapsed, memAtCall, evSince, gatewayUp>>
    /\ UNCHANGED <<updVars, editVars, loopVars, extVars>>

\* the caller has the outcome; another call may follow
FetchReturn ==
    /\ fpc = "done"
    /\ fpc' = "idle"
    /\ UNCHANGED <<members, prevMembers, lastOp, future, elapsed, fresult,
                   memAtCall, evSince, gatewayUp>>
    /\ UNCHANGED <<updVars, editVars, loopVars, extVars>>

\* the gateway connection is lost
GatewayDown ==
    /\ gatewayUp
    /\ gatewayUp' = FALSE
    /\ UNCHANGED <<members, prevMembers, lastOp, fpc, future, elapsed, fresult,
                   memAtCall, evSince>>
    /\ UNCHANGED <<updVars, editVars, loopVars, extVars>>

\* the gateway connection is back
GatewayBack ==
    /\ ~gatewayUp
    /\ gatewayUp' = TRUE
    /\ UNCHANGED <<members, prevMembers, lastOp, fpc, future, elapsed, fresult,
                   memAtCall, evSince>>
    /\ UNCHANGED <<updVars, editVars, loopVars, extVars>>

NextMembers ==
    \/ \E data \in MemberPayloads : AddMemberEvent(data)
    \/ \E id \in {IntOf[u] : u \in UserIdStrings} : PopMemberEvent(id)
    \/ FetchCall
    \/ RequestWritten
    \/ FetchSent
    \/ Tick
    \/ \E d \in ListEvents : ListEventArrives(d)
    \/ FetchTimeout
    \/ FetchResume
    \/ FetchReturn
    \/ GatewayDown
    \/ GatewayBack

SpecMembers == InitMembers /\ [][NextMembers]_vars

(***************************************************************************)
(* Properties of Thread._update                                            *)
(***************************************************************************)
\* the payload key that carries each thread field
TopLevelKey ==
    "name" :> "name" @@ "last_message_id" :> "last_message_id"
    @@ "slowmode_delay" :> "rate_limit_per_user"
    @@ "message_count" :> "message_count" @@ "member_count" :> "member_count"
    @@ "_member_ids" :> "member_ids_preview"

MetadataKey ==
    "archived" :> "archived" @@ "locked" :> "locked"
    @@ "invitable" :> "invitable"
    @@ "auto_archive_duration" :> "auto_archive_duration"
    @@ "archive_timestamp" :> "archive_timestamp"
    @@ "_created_at" :> "creation_timestamp"

\* the key of this thread field is absent from the payload
KeyAbsent(slot, data) ==
    IF slot \in DOMAIN TopLevelKey
    THEN TopLevelKey[slot] \notin DOMAIN data
    ELSE \/ "thread_metadata" \notin DOMAIN data
         \/ MetadataKey[slot] \notin DOMAIN data["thread_metadata"]

MergedSlots == DOMAIN TopLevelKey \cup DOMAIN MetadataKey

\* C1: Thread._update is a field-wise merge: after a payload has been
\* dispatched, every thread field whose key is absent from the payload has the
\* value it had before.
C1_AbsentFieldsKeepPriorValue ==
    ndeliv > 0 =>
        \A slot \in MergedSlots :
            KeyAbsent(slot, inflight) => thread[slot] = prev[slot]

\* C2: applying the same payload twice in a row gives an empty diff (None) on
\* the second application and leaves the thread as the first application left
\* it.
C2_SecondApplicationIsNoOp ==
    ndeliv >= 2 => rets[ndeliv] = None /\ thread = prev

\* C2 witness: a payload whose first application changed the thread and
\* returned the old copy has been applied a second time.
C2_Witness ==
    /\ ndeliv = 2
    /\ rets[1] # None
    /\ thread # rets[1][1]
    /\ rets[2] = None

\* the fields the claim calls observable
ObservableSlots ==
    { "name", "id", "_type", "owner_id", "parent_id", "last_message_id",
      "slowmode_delay", "locked", "archived", "invitable",
      "auto_archive_duration", "archive_timestamp", "_created_at" }

\* C3: Thread._update returns the pre-update snapshot exactly when an
\* observable field changed, and None otherwise; a returned snapshot carries
\* the prior value of every field.
C3_ReturnsOldIffObservableChange ==
    ndeliv > 0 =>
        /\ (rets[ndeliv] # None) <=>
               (\E slot \in ObservableSlots : thread[slot] # prev[slot])
        /\ rets[ndeliv] # None => rets[ndeliv][1] = prev

\* C3 witness: an update changed message_count, member_count and the member
\* id preview and nothing observable, and returned None.
C3_Witness ==
    /\ ndeliv = 1
    /\ thread["message_count"] # prev["message_count"]
    /\ thread["member_count"] # prev["member_count"]
    /\ thread["_member_ids"] # prev["_member_ids"]
    /\ rets[1] = None

(***************************************************************************)
(* Properties of the member map and fetch_members                          *)
(***************************************************************************)
\* C4: a fetch_members call that ends without a matching
\* thread_member_list_update event having arrived ends when the 15 time units
\* have passed, fails with InvalidData, and the member map is as it was when
\* the call was made (no member event having changed it meanwhile).
C4_TimeoutFailsAndKeepsMembers ==
    (fpc = "done" /\ future = None) =>
        /\ fresult.kind = "InvalidData"
        /\ elapsed = Timeout
        /\ ~evSince => members = memAtCall

\* the user ids of the members a thread_member_list_update event carries
EventUserIds(d) ==
    {IntOf[d["members"][i]["user"]["id"]] : i \in 1..Len(d["members"])}

\* C5: when a matching thread_member_list_update event arrived in time,
\* fetch_members succeeds, every returned member is in the member map under
\* its user id, and the full member list is returned.
C5_FetchSucceedsAndMerges ==
    (fpc = "done" /\ future # None) =>
        /\ fresult.kind = "ok"
        /\ \A u \in EventUserIds(future[1]) \ {SelfId} :
               u \in DOMAIN members /\ members[u].id = u
        /\ ~evSince => fresult.value = MemberList(members)

\* C6: every fetch_members call that completes does so with a member list
\* or with the timeout failure.
C6_CompletesWithListOrTimeout ==
    fpc = "done" => fresult.kind \in {"ok", "InvalidData"}

\* C7: neither Thread._add_member nor the member refresh of fetch_members
\* changes the local user's own membership record.
C7_MeUntouchedByAddPath ==
    lastOp.op \in {"_add_member", "fetch_members"} =>
        me(members, SelfId) = me(prevMembers, SelfId)

\* C7 witness: _add_member was called with a member carrying the local
\* user's id while a different self-membership record was stored.
C7_Witness ==
    /\ lastOp.op = "_add_member"
    /\ lastOp.arg[1].id = SelfId
    /\ me(members, SelfId) # None
    /\ me(members, SelfId) # lastOp.arg

\* C8: Thread._pop_member never raises; for an id that is not in the map it
\* returns None and leaves the map unchanged; for an id that is present it
\* returns that member and removes exactly that entry.
C8_PopMemberIdempotent ==
    lastOp.op = "_pop_member" =>
        LET id == lastOp.arg[1]
        IN  /\ lastOp.raised = ""
            /\ id \notin DOMAIN members
            /\ IF id \in DOMAIN prevMembers
               THEN /\ lastOp.ret = Some(prevMembers[id])
                    /\ DOMAIN members = DOMAIN prevMembers \ {id}
                    /\ \A k \in DOMAIN members : members[k] = prevMembers[k]
               ELSE /\ lastOp.ret = None
                    /\ members = prevMembers

\* C8 witness: an id that is not in a non-empty member map was removed.
C8_Witness ==
    /\ lastOp.op = "_pop_member"
    /\ lastOp.arg[1] \notin DOMAIN prevMembers
    /\ lastOp.ret = None
    /\ members # <<>>

(***************************************************************************)
(* Thread.edit                                                             *)
(***************************************************************************)
\* how many Thread.edit calls a behaviour makes
MaxEdits == 1

\* the keyword arguments a caller may supply (the others are MISSING)
EditArgs ==
    { MakeDict("name" :> nm @@ "archived" :> ar @@ "locked" :> lk
               @@ "invitable" :> iv @@ "slowmode_delay" :> sd
               @@ "auto_archive_duration" :> du) :
        nm \in Opt({"renamed"}), ar \in Opt(BOOLEAN), lk \in Opt(BOOLEAN),
        iv \in Opt(BOOLEAN), sd \in Opt({10}), du \in Opt({1440}) }

\* the payload key each keyword argument is sent under (lines 567-578)
EditKey ==
    "name" :> "name" @@ "archived" :> "archived"
    @@ "auto_archive_duration" :> "auto_archive_duration"
    @@ "locked" :> "locked" @@ "invitable" :> "invitable"
    @@ "slowmode_delay" :> "rate_limit_per_user"

\* mutant: every argument is sent under its own name
EditPayload_ArgumentNames(args) ==
    [a \in DOMAIN args |-> args[a]]

\* lines 566-578: the payload built from the arguments supplied
EditPayload(args) ==
    [k \in {EditKey[a] : a \in DOMAIN args} |->
        LET a == CHOOSE a \in DOMAIN args : EditKey[a] = k IN args[a]]

\* the thread payloads the server answers an edit with
EditResponses ==
    { c \in CreatePayloads :
        /\ "rate_limit_per_user" \in DOMAIN c
        /\ "last_message_id" \in DOMAIN c
        /\ "locked" \in DOMAIN c["thread_metadata"] }

\* the failures of an HTTP request
HttpErrors == {"Forbidden", "HTTPException"}

InitEdit ==
    /\ thread \in {_from_data(c) : c \in CreatePayloads}
    /\ inflight = <<>>
    /\ ndeliv = 0
    /\ prev = thread
    /\ rets = <<>>
    /\ MemQuiet
    /\ EditQuiet
    /\ LoopQuiet
    /\ ExtQuiet

\* lines 566-580: the payload is built and the edit_channel request issued
EditCall(args) ==
    /\ epc = "idle"
    /\ nreq < MaxEdits
    /\ epc' = "awaiting"
    /\ eargs' = args
    /\ ereq' = Some([route |-> "edit_channel", channel_id |-> thread["id"],
                     payload |-> EditPayload(args)])
    /\ eresult' = None
    /\ nreq' = nreq + 1
    /\ UNCHANGED <<updVars, memVars, loopVars, extVars>>

\* lines 580-582: the response arrives and a new Thread is built from it
EditSucceeds(data) ==
    /\ epc = "awaiting"
    /\ epc' = "done"
    /\ eresult' = [kind |-> "ok", thread |-> Some(_from_data(data))]
    /\ UNCHANGED <<eargs, ereq, nreq>>
    /\ UNCHANGED <<updVars, memVars, loopVars, extVars>>

\* line 580: the request fails and the failure propagates to the caller
EditFails(err) ==
    /\ epc = "awaiting"
    /\ epc' = "done"
    /\ eresult' = [kind |-> err, thread |-> None]
    /\ UNCHANGED <<eargs, ereq, nreq>>
    /\ UNCHANGED <<updVars, memVars, loopVars, extVars>>

\* the caller has the outcome
EditReturn ==
    /\ epc = "done"
    /\ epc' = "idle"
    /\ ereq' = None
    /\ UNCHANGED <<eargs, eresult, nreq>>
    /\ UNCHANGED <<updVars, memVars, loopVars, extVars>>

NextEdit ==
    \/ \E args \in EditArgs : EditCall(args)
    \/ \E data \in EditResponses : EditSucceeds(data)
    \/ \E err \in HttpErrors : EditFails(err)
    \/ EditReturn

SpecEdit == InitEdit /\ [][NextEdit]_vars

\* C9: for a thread whose cached archived flag is true, an edit that does not
\* set archived=False is rejected before any network call: no edit_channel
\* request is ever outstanding for it.
C9_ArchivedEditSendsNothing ==
    (thread["archived"] /\ ereq # None) =>
        /\ "archived" \in DOMAIN ereq[1].payload
        /\ ereq[1].payload["archived"] = FALSE

(***************************************************************************)
(* Thread._update on the event loop                                        *)
(***************************************************************************)
\* mutant: the task is suspended after the metadata has been unrolled
UpdateAwaitPoints_AfterMetadata == {2}

\* the stages of Thread._update after which the running task awaits: it is a
\* plain function whose body has no await
UpdateAwaitPoints == {}

\* another task can run only when the running task is suspended or finished
LoopYielded == ~urun \/ upc \in UpdateAwaitPoints

InitLoop ==
    /\ thread \in {_from_data(c) : c \in EditResponses}
    /\ inflight \in UpdatePayloads
    /\ ndeliv = 0
    /\ prev = thread
    /\ rets = <<>>
    /\ MemQuiet
    /\ EditQuiet
    /\ urun = FALSE
    /\ upc = 0
    /\ committed = {thread}
    /\ observed = None
    /\ ExtQuiet

\* line 191: the dispatcher enters Thread._update and copies the thread
UpdateEnter ==
    /\ ~urun
    /\ ndeliv < MaxDeliveries
    /\ urun' = TRUE
    /\ upc' = 0
    /\ prev' = thread
    /\ UNCHANGED <<thread, inflight, ndeliv, rets, committed, observed>>
    /\ UNCHANGED <<memVars, editVars, extVars>>

\* lines 192-205: the next assignment
UpdateStep ==
    /\ urun
    /\ upc < UpdateStages
    /\ thread' = UpdateStage(upc + 1, thread, inflight)
    /\ upc' = upc + 1
    /\ UNCHANGED <<inflight, ndeliv, prev, rets, urun, committed, observed>>
    /\ UNCHANGED <<memVars, editVars, extVars>>

\* lines 207-210: the comparison and the return
UpdateLeave ==
    /\ urun
    /\ upc = UpdateStages
    /\ rets' = Append(rets, UpdateResult(prev, thread))
    /\ committed' = committed \cup {_update(prev, inflight).thread}
    /\ ndeliv' = ndeliv + 1
    /\ urun' = FALSE
    /\ upc' = 0
    /\ UNCHANGED <<thread, inflight, prev, observed>>
    /\ UNCHANGED <<memVars, editVars, extVars>>

\* another task of the event loop reads the cached thread
Read ==
    /\ LoopYielded
    /\ observed' = Some(thread)
    /\ UNCHANGED <<updVars, urun, upc, committed>>
    /\ UNCHANGED <<memVars, editVars, extVars>>

NextLoop == UpdateEnter \/ UpdateStep \/ UpdateLeave \/ Read

SpecLoop == InitLoop /\ [][NextLoop]_vars

\* the slots in which two threads differ
Differing(a, b) == {x \in SlotSet : a[x] # b[x]}

\* C10: whatever another task reads of a cached thread is the complete state
\* before or after a whole update, never a partially merged thread.
C10_ReadersSeeWholeUpdates ==
    observed # None => observed[1] \in committed

\* C10 witness: a task read the thread after an update that assigned at
\* least two fields in different statements, and saw all of them changed.
C10_Witness ==
    /\ observed # None
    /\ ndeliv = 1
    /\ ~urun
    /\ observed[1] = thread
    /\ {"slowmode_delay", "archived", "name"} \subseteq Differing(thread, prev)

(***************************************************************************)
(* Thread.join, leave, add_user, remove_user and delete                    *)
(***************************************************************************)
\* how many REST calls a behaviour makes
MaxCalls == 2

\* the methods that are one awaited HTTP call and nothing else
RestOps == {"join", "leave", "add_user", "remove_user", "delete"}

\* the HTTP client method each of them awaits (lines 599, 611, 635, 656, 702)
RestRoute ==
    "join" :> "join_thread" @@ "leave" :> "leave_thread"
    @@ "add_user" :> "add_user_to_thread"
    @@ "remove_user" :> "remove_user_from_thread"
    @@ "delete" :> "delete_channel"

\* the methods that take a user (lines 613 and 637)
TakesUser == {"add_user", "remove_user"}

\* the users a caller may name
RestUsers == {IntOf["2"], IntOf["3"]}

\* the calls a caller may make: a method and, where it takes one, a user
RestCalls ==
    { [op |-> op, user |-> u] : op \in RestOps, u \in Opt(RestUsers) } \
    { c \in [op : RestOps, user : Opt(RestUsers)] :
        (c.op \in TakesUser) = (c.user = None) }

\* a retrying variant: the request is issued a second time
RestRequests_Retried(op, tid, user) ==
    LET r == [route |-> RestRoute[op], channel_id |-> tid, user_id |-> user]
    IN  <<r, r>>

\* the requests one call issues: self.id and, for the user methods, user.id
RestRequests(op, tid, user) ==
    <<[route |-> RestRoute[op], channel_id |-> tid, user_id |-> user]>>

\* a cached thread with or without the current user's membership
InitRest ==
    /\ UpdQuiet
    /\ \E withMe \in BOOLEAN :
          members =
              IF withMe
              THEN me_setter(<<>>,
                       ThreadMember_from_data("flags" :> 0, thread["id"], SelfId,
                                              CachedGuildMembers).member[1])
              ELSE <<>>
    /\ prevMembers = members
    /\ lastOp = NoOp
    /\ fpc = "idle"
    /\ future = None
    /\ elapsed = 0
    /\ fresult = None
    /\ memAtCall = members
    /\ evSince = FALSE
    /\ gatewayUp = TRUE
    /\ EditQuiet
    /\ LoopQuiet
    /\ RestQuiet
    /\ PurgeQuiet
    /\ GatewayQuiet
    /\ RateQuiet
    /\ PureQuiet
    /\ RaceQuiet
    /\ GuildQuiet
    /\ SnapQuiet

\* the method is called and its request issued
RestCall(c) ==
    /\ rpc = "idle"
    /\ nreq < MaxCalls
    /\ LET reqs == RestRequests(c.op, thread["id"], c.user)
       IN  /\ rreqs' = reqs
           /\ nreq' = nreq + Len(reqs)
    /\ rpc' = "awaiting"
    /\ rcall' = Some(c)
    /\ rhttp' = None
    /\ rresult' = None
    /\ cacheAtCall' = Some([thread |-> thread, members |-> members])
    /\ UNCHANGED <<epc, eargs, ereq, eresult>>
    /\ UNCHANGED <<updVars, memVars, loopVars, besideRest>>

\* the request succeeds: the method returns None
RestSucceeds ==
    /\ rpc = "awaiting"
    /\ rpc' = "done"
    /\ rhttp' = Some("ok")
    /\ rresult' = Some("ok")
    /\ UNCHANGED <<rcall, rreqs, cacheAtCall>>
    /\ UNCHANGED <<coreVars, besideRest>>

\* the request fails: the await raises what the HTTP client raised
RestFails(err) ==
    /\ rpc = "awaiting"
    /\ rpc' = "done"
    /\ rhttp' = Some(err)
    /\ rresult' = Some(err)
    /\ UNCHANGED <<rcall, rreqs, cacheAtCall>>
    /\ UNCHANGED <<coreVars, besideRest>>

\* the caller has the outcome
RestReturn ==
    /\ rpc = "done"
    /\ rpc' = "idle"
    /\ UNCHANGED <<rcall, rreqs, rhttp, rresult, cacheAtCall>>
    /\ UNCHANGED <<coreVars, besideRest>>

NextRest ==
    \/ \E c \in RestCalls : RestCall(c)
    \/ RestSucceeds
    \/ \E err \in HttpErrors : RestFails(err)
    \/ RestReturn
    \/ \E args \in EditArgs : EditCall(args)
    \/ \E data \in EditResponses : EditSucceeds(data)
    \/ \E err \in HttpErrors : EditFails(err)
    \/ EditReturn

SpecRest == InitRest /\ [][NextRest]_vars

\* C11: join, leave, add_user, remove_user, delete and edit issue exactly one
\* HTTP request per call, hand the caller the outcome of that request
\* unchanged, and leave the cached thread and the member map as they were.
C11_RestFailuresSurfaceUnretried ==
    /\ rpc # "idle" =>
          /\ Len(rreqs) = 1
          /\ thread = cacheAtCall[1].thread
          /\ members = cacheAtCall[1].members
    /\ rpc = "done" => rresult = rhttp
    /\ epc # "idle" => ereq # None
    /\ thread = prev
    /\ members = prevMembers

C11_Witness ==
    /\ rpc = "done"
    /\ rcall[1].op = "remove_user"
    /\ rresult[1] \in HttpErrors
    /\ epc = "done"
    /\ eresult.kind \in HttpErrors
    /\ members # <<>>

(***************************************************************************)
(* Thread.purge                                                            *)
(***************************************************************************)
\* lines 495-496: a batch is flushed when count reaches 50
BatchSize == 50

\* the longest run of messages satisfying check at the head of a history
MaxHead == 101

\* the longest run of messages not satisfying check
MaxGap == 1

\* the longest run of messages satisfying check after the gap
MaxTail == 1

\* a run of n messages whose ids follow `from`, all with the same verdict of check
Run(from, n, ok) == [i \in 1..n |-> [id |-> from + i, ok |-> ok]]

\* the histories: non-matching, matching, non-matching and matching runs
Histories ==
    { Run(0, lead, FALSE) \o Run(lead, head, TRUE)
      \o Run(lead + head, gap, FALSE) \o Run(lead + head + gap, tail, TRUE) :
        lead \in 0..MaxGap, head \in 0..MaxHead, gap \in 0..MaxGap,
        tail \in 0..MaxTail }

\* the limit arguments: the default of line 439 and None
Limits == Opt({100})

\* self.history(limit=limit, ...): at most limit messages, in iteration order
history(msgs, limit) ==
    IF limit = None \/ limit[1] >= Len(msgs) THEN msgs
    ELSE SubSeq(msgs, 1, limit[1])

\* the verdict of the check predicate on a message
check(message) == message.ok

\* Python's s[-n:] for n >= 0: the whole list when n is 0 or exceeds its length
LastSlice(s, n) ==
    IF n = 0 \/ n >= Len(s) THEN s ELSE SubSeq(s, Len(s) - n + 1, Len(s))

InitPurge ==
    /\ UpdQuiet
    /\ MemQuiet
    /\ EditQuiet
    /\ LoopQuiet
    /\ RestQuiet
    /\ GatewayQuiet
    /\ RateQuiet
    /\ PureQuiet
    /\ RaceQuiet
    /\ GuildQuiet
    /\ SnapQuiet
    /\ ppc = "idle"
    /\ plimit \in Limits
    /\ phistory \in Histories
    /\ ppos = 0
    /\ pret = <<>>
    /\ pcount = 0
    /\ pcalls = <<>>
    /\ pawait = ""
    /\ praised = ""

\* lines 485-492: the iterator is made, ret and count start empty
PurgeCall ==
    /\ ppc = "idle"
    /\ ppc' = "loop"
    /\ UNCHANGED <<plimit, phistory, ppos, pret, pcount, pcalls, pawait, praised>>
    /\ UNCHANGED <<coreVars, besidePurge>>

\* lines 500-504: the message is checked and, when it passes, counted and
\* appended to ret
Checked(message, count, ret) ==
    IF check(message)
    THEN [count |-> count + 1, ret |-> Append(ret, message)]
    ELSE [count |-> count, ret |-> ret]

\* lines 494-504: the iterator yields the next message; with count at 50
\* the batch is handed to state._delete_messages and purge is suspended in
\* that await (line 497), otherwise the body runs to its end
PurgeIterate ==
    /\ ppc = "loop"
    /\ pawait = ""
    /\ ppos < Len(history(phistory, plimit))
    /\ ppos' = ppos + 1
    /\ IF pcount = BatchSize
       THEN /\ pcalls' = Append(pcalls, LastSlice(pret, BatchSize))
            /\ pawait' = "flush"
            /\ UNCHANGED <<pcount, pret>>
       ELSE LET r == Checked(history(phistory, plimit)[ppos + 1], pcount, pret)
            IN  /\ pcount' = r.count
                /\ pret' = r.ret
                /\ UNCHANGED <<pcalls, pawait>>
    /\ UNCHANGED <<ppc, plimit, phistory, praised>>
    /\ UNCHANGED <<coreVars, besidePurge>>

\* lines 497-504: the helper has completed; count is reset and the rest of
\* the body runs for the message the iterator yielded
PurgeFlushed ==
    /\ ppc = "loop"
    /\ pawait = "flush"
    /\ LET r == Checked(history(phistory, plimit)[ppos], 0, pret)
       IN  /\ pcount' = r.count
           /\ pret' = r.ret
    /\ pawait' = ""
    /\ UNCHANGED <<ppc, plimit, phistory, ppos, pcalls, praised>>
    /\ UNCHANGED <<coreVars, besidePurge>>

\* lines 505-508: the iterator is exhausted; the rest is handed to
\* state._delete_messages and purge is suspended in that await
PurgeFinish ==
    /\ ppc = "loop"
    /\ pawait = ""
    /\ ppos = Len(history(phistory, plimit))
    /\ pcalls' = Append(pcalls, LastSlice(pret, pcount))
    /\ pawait' = "final"
    /\ UNCHANGED <<ppc, plimit, phistory, ppos, pret, pcount, praised>>
    /\ UNCHANGED <<coreVars, besidePurge>>

\* line 510: the helper has completed and ret is returned
PurgeReturn ==
    /\ ppc = "loop"
    /\ pawait = "final"
    /\ ppc' = "done"
    /\ pawait' = ""
    /\ UNCHANGED <<plimit, phistory, ppos, pret, pcount, pcalls, praised>>
    /\ UNCHANGED <<coreVars, besidePurge>>

\* lines 497, 508: the helper raises; the exception leaves purge, which
\* returns nothing
PurgeDeleteFails(err) ==
    /\ ppc = "loop"
    /\ pawait # ""
    /\ ppc' = "raised"
    /\ praised' = err
    /\ pawait' = ""
    /\ UNCHANGED <<plimit, phistory, ppos, pret, pcount, pcalls>>
    /\ UNCHANGED <<coreVars, besidePurge>>

NextPurge ==
    \/ PurgeCall
    \/ PurgeIterate
    \/ PurgeFlushed
    \/ PurgeFinish
    \/ PurgeReturn
    \/ \E err \in HttpErrors : PurgeDeleteFails(err)

SpecPurge == InitPurge /\ [][NextPurge]_vars

\* the messages of a list that satisfy check, in order
RECURSIVE Matching(_)
Matching(msgs) ==
    IF msgs = <<>> THEN <<>>
    ELSE LET rest == Matching(SubSeq(msgs, 1, Len(msgs) - 1))
             last == msgs[Len(msgs)]
         IN  IF check(last) THEN Append(rest, last) ELSE rest

\* the lists of a sequence of lists, joined in order
RECURSIVE Concat(_)
Concat(lists) ==
    IF lists = <<>> THEN <<>>
    ELSE Concat(SubSeq(lists, 1, Len(lists) - 1)) \o lists[Len(lists)]

\* C12: purge returns exactly the messages of the searched history that
\* satisfy check, in iteration order, and the messages handed to the delete
\* endpoint over the whole call are exactly the returned ones, each once.
C12_PurgeDeletesWhatItReturnsOnce ==
    ppc = "done" =>
        /\ pret = Matching(history(phistory, plimit))
        /\ Concat(pcalls) = pret

\* the ids of the messages of a list
Ids(msgs) == {msgs[i].id : i \in DOMAIN msgs}

\* C20: every list purge hands to the bulk-delete helper has at most 50
\* messages, is a consecutive slice of the returned list, and shares no
\* message with any other list of the same call.
C20_PurgeBatchesDisjointAtMostFifty ==
    /\ \A i \in DOMAIN pcalls :
          /\ Len(pcalls[i]) <= BatchSize
          /\ \E a \in 0..Len(pret) :
                pcalls[i] = SubSeq(pret, a + 1, a + Len(pcalls[i]))
    /\ \A i, j \in DOMAIN pcalls :
          i < j => Ids(pcalls[i]) \cap Ids(pcalls[j]) = {}

(***************************************************************************)
(* Gateway session state machine and dispatcher                            *)
(***************************************************************************)
\* how many events a behaviour dispatches
MaxEvents == 3

\* consecutive missed acks that force a reconnect
MissLimit == 2

\* the sequence numbers the server stamps events with
SeqNumbers == {5, 6, 7}

\* the entities of the store
Entities == {IntOf["40"], IntOf["50"]}

\* the entity snapshots a session-ready dispatch may carry
Snapshots == {[e \in S |-> 0] : S \in SUBSET Entities}

\* the states in which the connection is open and the heartbeat task runs
Connected == {"Identifying", "Ready", "Resuming"}

\* an event that is never dropped
ShouldDrop_Never(seq, last) == FALSE

\* a received sequence lower than the last observed one is dropped
ShouldDrop(seq, last) == last # None /\ seq < last[1]

\* the store's upsert, for entities of one field
upsert(store, id, payload) ==
    [e \in DOMAIN store \cup {id} |-> IF e = id THEN payload ELSE store[e]]

\* a resume that rebuilds the store
StoreAfterResume_Rebuilt(store) == <<>>

\* a successful resume does not rebuild the Entity Store
StoreAfterResume(store) == store

\* an ack that leaves the miss count
AfterAck_Kept(misses) == misses

\* an ack resets the miss count
AfterAck(misses) == 0

\* the machine enters a state
Enter(st) ==
    /\ gstate' = st
    /\ gpath' = LET p == Append(gpath, st)
                IN  IF Len(p) > 3 THEN SubSeq(p, Len(p) - 2, Len(p)) ELSE p

\* the step taken and the session as it was before it
Record(act, arg) ==
    glast' = Some([act |-> act, arg |-> arg, state |-> gstate, seq |-> gseq,
                   store |-> gstore, unacked |-> gunacked,
                   misses |-> gmisses])

InitGateway ==
    /\ UpdQuiet
    /\ MemQuiet
    /\ EditQuiet
    /\ LoopQuiet
    /\ RestQuiet
    /\ PurgeQuiet
    /\ GatewayQuiet
    /\ RateQuiet
    /\ PureQuiet
    /\ RaceQuiet
    /\ GuildQuiet
    /\ SnapQuiet

\* Disconnected -> Connecting
Connect ==
    /\ gstate = "Disconnected"
    /\ Enter("Connecting")
    /\ Record("connect", <<>>)
    /\ UNCHANGED <<gsession, gseq, gstore, gdrops, gdelivered, gunacked,
                   gmisses, gstoreAtClose, greplayed>>
    /\ UNCHANGED <<coreVars, besideGateway>>

\* Connecting -> Identifying on hello: the heartbeat task begins
Hello ==
    /\ gstate = "Connecting"
    /\ Enter("Identifying")
    /\ Record("hello", <<>>)
    /\ gunacked' = FALSE
    /\ gmisses' = 0
    /\ UNCHANGED <<gsession, gseq, gstore, gdrops, gdelivered, gstoreAtClose,
                   greplayed>>
    /\ UNCHANGED <<coreVars, besideGateway>>

\* Identifying -> Ready: session id and snapshot captured, prior cache discarded
ReadyDispatch(sid, snapshot) ==
    /\ gstate = "Identifying"
    /\ Enter("Ready")
    /\ Record("ready", <<snapshot>>)
    /\ gsession' = Some(sid)
    /\ gseq' = None
    /\ gstore' = snapshot
    /\ gstoreAtClose' = <<>>
    /\ greplayed' = {}
    /\ UNCHANGED <<gdrops, gdelivered, gunacked, gmisses>>
    /\ UNCHANGED <<coreVars, besideGateway>>

\* dispatch(eventName, sequence, payload), live or replayed after a resume
DispatchEvent(seq, id, payload) ==
    /\ gstate \in {"Ready", "Resuming"}
    /\ Len(gdelivered) < MaxEvents
    /\ Record("dispatch", <<seq>>)
    /\ gdelivered' = Append(gdelivered, seq)
    /\ IF ShouldDrop(seq, gseq)
       THEN /\ gdrops' = Append(gdrops, seq)
            /\ UNCHANGED <<gseq, gstore, greplayed>>
       ELSE /\ gseq' = Some(seq)
            /\ gstore' = upsert(gstore, id, payload)
            /\ greplayed' = IF gstate = "Resuming" THEN greplayed \cup {id}
                            ELSE greplayed
            /\ UNCHANGED gdrops
    /\ UNCHANGED <<gstate, gpath, gsession, gunacked, gmisses, gstoreAtClose>>
    /\ UNCHANGED <<coreVars, besideGateway>>

\* any state -> Reconnecting
Reconnect(cause) ==
    /\ Enter("Reconnecting")
    /\ Record(cause, <<>>)
    /\ gstoreAtClose' = gstore
    /\ greplayed' = {}
    /\ UNCHANGED <<gsession, gseq, gstore, gdrops, gdelivered>>
    /\ UNCHANGED <<coreVars, besideGateway>>

\* the transport closes
TransportClosure ==
    /\ gstate \in Connected \cup {"Connecting"}
    /\ Reconnect("closure")
    /\ UNCHANGED <<gunacked, gmisses>>

\* the server sends a reconnect-request frame
ReconnectRequest ==
    /\ gstate \in Connected
    /\ Reconnect("reconnect_request")
    /\ UNCHANGED <<gunacked, gmisses>>

\* the heartbeat timer fires: a heartbeat without a prior ack is a missed ack
Heartbeat ==
    /\ gstate \in Connected
    /\ LET misses == IF gunacked THEN gmisses + 1 ELSE gmisses
       IN  /\ gmisses' = misses
           /\ IF misses >= MissLimit
              THEN /\ Reconnect("heartbeat")
                   /\ UNCHANGED gunacked
              ELSE /\ gunacked' = TRUE
                   /\ Record("heartbeat", <<>>)
                   /\ UNCHANGED <<gstate, gpath, gsession, gseq, gstore, gdrops,
                                  gdelivered, gstoreAtClose, greplayed>>
                   /\ UNCHANGED <<coreVars, besideGateway>>

\* a heartbeat-ack frame arrives
HeartbeatAck ==
    /\ gstate \in Connected
    /\ gunacked
    /\ Record("ack", <<>>)
    /\ gunacked' = FALSE
    /\ gmisses' = AfterAck(gmisses)
    /\ UNCHANGED <<gstate, gpath, gsession, gseq, gstore, gdrops, gdelivered,
                   gstoreAtClose, greplayed>>
    /\ UNCHANGED <<coreVars, besideGateway>>

\* Reconnecting -> Resuming: a known session is always resumed first
AttemptResume ==
    /\ gstate = "Reconnecting"
    /\ gsession # None
    /\ Enter("Resuming")
    /\ Record("resume", <<>>)
    /\ gunacked' = FALSE
    /\ gmisses' = 0
    /\ UNCHANGED <<gsession, gseq, gstore, gdrops, gdelivered, gstoreAtClose,
                   greplayed>>
    /\ UNCHANGED <<coreVars, besideGateway>>

\* Reconnecting -> Disconnected: there is no session to resume
Abandon ==
    /\ gstate = "Reconnecting"
    /\ gsession = None
    /\ Enter("Disconnected")
    /\ Record("abandon", <<>>)
    /\ UNCHANGED <<gsession, gseq, gstore, gdrops, gdelivered, gunacked,
                   gmisses, gstoreAtClose, greplayed>>
    /\ UNCHANGED <<coreVars, besideGateway>>

\* Resuming -> Ready: the server accepted the resume and has replayed
ResumeSucceeds ==
    /\ gstate = "Resuming"
    /\ Enter("Ready")
    /\ Record("resumed", <<>>)
    /\ gstore' = StoreAfterResume(gstore)
    /\ UNCHANGED <<gsession, gseq, gdrops, gdelivered, gunacked, gmisses,
                   gstoreAtClose, greplayed>>
    /\ UNCHANGED <<coreVars, besideGateway>>

\* Resuming -> Identifying: the server declares the session invalid
InvalidSession ==
    /\ gstate = "Resuming"
    /\ Enter("Identifying")
    /\ Record("invalid_session", <<>>)
    /\ gsession' = None
    /\ gseq' = None
    /\ gstore' = <<>>
    /\ UNCHANGED <<gdrops, gdelivered, gunacked, gmisses, gstoreAtClose,
                   greplayed>>
    /\ UNCHANGED <<coreVars, besideGateway>>

NextGateway ==
    \/ Connect
    \/ Hello
    \/ \E sid \in {"s1"}, snapshot \in Snapshots : ReadyDispatch(sid, snapshot)
    \/ \E seq \in SeqNumbers, id \in Entities, payload \in {1} :
          DispatchEvent(seq, id, payload)
    \/ TransportClosure
    \/ ReconnectRequest
    \/ Heartbeat
    \/ HeartbeatAck
    \/ AttemptResume
    \/ Abandon
    \/ ResumeSucceeds
    \/ InvalidSession

SpecGateway == InitGateway /\ [][NextGateway]_vars

\* C13: an event whose sequence number is lower than the last observed one is
\* dropped: the Entity Store and the last observed sequence stay as they
\* were, and the drop is recorded where a test hook can see it.
C13_LowerSequenceDropped ==
    (/\ glast # None
     /\ glast[1].act = "dispatch"
     /\ glast[1].seq # None
     /\ glast[1].arg[1] < glast[1].seq[1]) =>
        /\ gstore = glast[1].store
        /\ gseq = glast[1].seq
        /\ gdrops # <<>>
        /\ gdrops[Len(gdrops)] = glast[1].arg[1]

C13_Witness ==
    /\ gdelivered = <<5, 7, 6>>
    /\ gdrops = <<6>>
    /\ gseq = Some(7)
    /\ glast[1].seq = Some(7)

\* every entity no replayed event touched is as it was when the connection
\* was lost
UntouchedSinceClose ==
    /\ DOMAIN gstore \ greplayed = DOMAIN gstoreAtClose \ greplayed
    /\ \A e \in DOMAIN gstore \ greplayed : gstore[e] = gstoreAtClose[e]

\* C15: a session that loses its connection in Ready goes to Reconnecting
\* and then Resuming; while it resumes and when the resume has succeeded the
\* Entity Store is as it was at the loss except for replayed events; a
\* rejected resume leads to Identifying with the store cleared, and the next
\* ready leaves exactly its snapshot in the store.
C15_ResumeKeepsStoreRejectRebuilds ==
    /\ (Len(gpath) = 3 /\ gpath[1] = "Ready" /\ gpath[2] = "Reconnecting") =>
          gpath[3] = "Resuming"
    /\ (gstate = "Resuming" \/ (glast # None /\ glast[1].act = "resumed")) =>
          UntouchedSinceClose
    /\ (glast # None /\ glast[1].act = "invalid_session") =>
          /\ gstate = "Identifying"
          /\ gstore = <<>>
    /\ (glast # None /\ glast[1].act = "ready") =>
          /\ gstate = "Ready"
          /\ gstore = glast[1].arg[1]

C15_Witness ==
    /\ gpath = <<"Reconnecting", "Resuming", "Ready">>
    /\ glast[1].act = "resumed"
    /\ greplayed # {}
    /\ gstore # gstoreAtClose
    /\ DOMAIN gstore \ greplayed # {}

\* C16: a heartbeat sent while the previous one is unacknowledged counts one
\* missed ack; at two consecutive misses the session is in Reconnecting at
\* once; an ack resets the count.
C16_TwoMissedAcksForceReconnect ==
    /\ (glast # None /\ glast[1].act = "heartbeat") =>
          /\ gmisses = glast[1].misses + (IF glast[1].unacked THEN 1 ELSE 0)
          /\ gmisses >= MissLimit => gstate = "Reconnecting"
    /\ (glast # None /\ glast[1].act = "ack") =>
          /\ gmisses = 0
          /\ ~gunacked
    /\ gstate \in Connected => gmisses < MissLimit

C16_Witness ==
    /\ glast # None
    /\ glast[1].act = "heartbeat"
    /\ glast[1].state = "Ready"
    /\ glast[1].misses = 1
    /\ gmisses = MissLimit
    /\ gstate = "Reconnecting"

(***************************************************************************)
(* Rate-limit bucket                                                       *)
(***************************************************************************)
\* the latest time on the clock
MaxTime == 3

\* the largest quota of a bucket
MaxLimit == 2

\* the length of a reset window
Window == 2

\* the callers sharing the bucket
Callers == {"c1", "c2", "c3"}

\* the buckets a behaviour may start with: a reset in the future
Buckets ==
    { b \in [remaining : 0..MaxLimit, reset : 1..MaxTime, limit : 1..MaxLimit] :
        b.remaining <= b.limit }

\* a manager that hands out permits without looking at the bucket
MayProceed_Always(bucket, now) == TRUE

\* a permit is released when quota remains or the reset window has elapsed
MayProceed(bucket, now) == bucket.remaining > 0 \/ now >= bucket.reset

\* a bucket whose reset time has passed resets remaining to the last limit
Refreshed(bucket, now) ==
    IF now >= bucket.reset
    THEN [bucket EXCEPT !.remaining = bucket.limit, !.reset = now + Window]
    ELSE bucket

InitRate ==
    /\ UpdQuiet
    /\ MemQuiet
    /\ EditQuiet
    /\ LoopQuiet
    /\ RestQuiet
    /\ PurgeQuiet
    /\ GatewayQuiet
    /\ PureQuiet
    /\ RaceQuiet
    /\ GuildQuiet
    /\ SnapQuiet
    /\ rlnow = 0
    /\ rlbucket \in Buckets
    /\ rlbucket0 = rlbucket
    /\ rlpc = [c \in Callers |-> "idle"]
    /\ rlasked = [c \in Callers |-> None]
    /\ rlgranted = [c \in Callers |-> None]
    /\ rlused = rlbucket.limit - rlbucket.remaining

\* a caller calls acquire(route_key) and suspends
Acquire(c) ==
    /\ rlpc[c] = "idle"
    /\ rlpc' = [rlpc EXCEPT ![c] = "waiting"]
    /\ rlasked' = [rlasked EXCEPT ![c] = Some(rlnow)]
    /\ UNCHANGED <<rlnow, rlbucket, rlbucket0, rlgranted, rlused>>
    /\ UNCHANGED <<coreVars, besideRate>>

\* the manager accounts one waiting caller against the bucket and wakes it
Grant(c) ==
    /\ rlpc[c] = "waiting"
    /\ MayProceed(rlbucket, rlnow)
    /\ LET b == Refreshed(rlbucket, rlnow)
       IN  /\ rlbucket' = [b EXCEPT !.remaining = b.remaining - 1]
           /\ rlused' = IF b = rlbucket THEN rlused + 1 ELSE 1
    /\ rlpc' = [rlpc EXCEPT ![c] = "granted"]
    /\ rlgranted' = [rlgranted EXCEPT ![c] = Some(rlnow)]
    /\ UNCHANGED <<rlnow, rlbucket0, rlasked>>
    /\ UNCHANGED <<coreVars, besideRate>>

\* time passes
Advance ==
    /\ rlnow < MaxTime
    /\ rlnow' = rlnow + 1
    /\ UNCHANGED <<rlbucket, rlbucket0, rlpc, rlasked, rlgranted, rlused>>
    /\ UNCHANGED <<coreVars, besideRate>>

NextRate ==
    \/ \E c \in Callers : Acquire(c)
    \/ \E c \in Callers : Grant(c)
    \/ Advance

SpecRate == InitRate /\ [][NextRate]_vars

\* the callers granted a permit before the first reset of the bucket
EarlyGrants ==
    {c \in Callers : rlgranted[c] # None /\ rlgranted[c][1] < rlbucket0.reset}

\* C14: the permits granted within a window never exceed the quota; of the
\* callers of a bucket that starts with remaining = 1 and a reset in the
\* future, at most one gets its permit before the reset and every other
\* permit is granted at the reset time or later.
C14_PermitsWithinQuota ==
    /\ rlused <= rlbucket.limit
    /\ rlbucket.remaining >= 0
    /\ Cardinality(EarlyGrants) <= rlbucket0.remaining
    /\ rlbucket0.remaining = 1 =>
          \A c, d \in Callers :
              (c # d /\ c \in EarlyGrants /\ rlgranted[d] # None) =>
                  rlgranted[d][1] >= rlbucket0.reset

C14_Witness ==
    /\ rlbucket0.remaining = 1
    /\ rlbucket0.reset > 1
    /\ rlasked["c1"] = Some(0)
    /\ rlasked["c2"] = Some(0)
    /\ rlgranted["c1"] = Some(0)
    /\ rlgranted["c2"] = Some(rlbucket0.reset)

(***************************************************************************)
(* Snowflake creation times and Thread.created_at                          *)
(***************************************************************************)
\* the largest timestamp field of a snowflake, in milliseconds
MaxStamp == 2

\* the snowflakes: a timestamp above bit 22, worker and increment bits below
Snowflakes ==
    {ts * 2^22 + low : ts \in 0..MaxStamp, low \in {0, 1, 2^22 - 1}}

\* a datetime: whole minutes after 2022-01-01T00:00:00+00:00 and the
\* milliseconds into the minute
Datetime(minutes, ms) == [min |-> minutes + ms \div 60000, ms |-> ms % 60000]

\* utils.snowflake_time: (id >> 22) milliseconds after the Discord epoch,
\* 2015-01-01T00:00:00+00:00, which is 3682080 minutes before 2022-01-01
snowflake_time(id) == Datetime(0 - 3682080, id \div 2^22)

\* a property that ignores the payload's timestamp
created_at_AlwaysSnowflake(t) == snowflake_time(t["id"])

\* Thread.created_at (line 250)
created_at(t) ==
    IF t["_created_at"] # None THEN Datetime(t["_created_at"][1], 0)
    ELSE snowflake_time(t["id"])

\* x is not later than y
NotLater(x, y) == x.min < y.min \/ (x.min = y.min /\ x.ms <= y.ms)

InitSnowflake ==
    /\ UpdQuiet
    /\ MemQuiet
    /\ EditQuiet
    /\ LoopQuiet
    /\ RestQuiet
    /\ PurgeQuiet
    /\ GatewayQuiet
    /\ RateQuiet
    /\ RaceQuiet
    /\ GuildQuiet
    /\ SnapQuiet
    /\ pin \in [a : Snowflakes, b : Snowflakes, data : CreatePayloads]
    /\ pout = [times |-> None, created |-> None]

\* snowflake_time of both ids
SnowflakeTimes ==
    /\ pout.times = None
    /\ pout' = [pout EXCEPT
                  !.times = Some(<<snowflake_time(pin.a), snowflake_time(pin.b)>>)]
    /\ UNCHANGED pin
    /\ UNCHANGED <<coreVars, besidePure>>

\* created_at of the thread built from the payload under the id a
ReadCreatedAt ==
    /\ pout.created = None
    /\ pout' = [pout EXCEPT
                  !.created =
                      Some(created_at([_from_data(pin.data) EXCEPT !["id"] = pin.a]))]
    /\ UNCHANGED pin
    /\ UNCHANGED <<coreVars, besidePure>>

NextSnowflake ==
    \/ SnowflakeTimes
    \/ ReadCreatedAt

SpecSnowflake == InitSnowflake /\ [][NextSnowflake]_vars

\* C17: the creation time of a snowflake never decreases as the snowflake
\* increases; Thread.created_at is the creation timestamp of the payload's
\* metadata when it carried one and the snowflake time of the thread id
\* otherwise.
C17_CreationTimeMonotoneAndPreferred ==
    /\ (pout.times # None /\ pin.a <= pin.b) =>
          NotLater(pout.times[1][1], pout.times[1][2])
    /\ pout.created # None =>
          LET md == pin.data["thread_metadata"]
          IN  IF "creation_timestamp" \in DOMAIN md
              THEN pout.created[1] = Datetime(IsoMinutes[md["creation_timestamp"]], 0)
              ELSE pout.created[1] = Datetime(0 - 3682080, pin.a \div 2^22)

C17_Witness ==
    /\ pout.times # None
    /\ pin.a < pin.b
    /\ pin.a \div 2^22 = pin.b \div 2^22
    /\ pin.a \div 2^22 > 0
    /\ pout.created # None
    /\ "creation_timestamp" \notin DOMAIN pin.data["thread_metadata"]
    /\ pout.created[1].ms = pin.a \div 2^22

(***************************************************************************)
(* try_enum                                                                *)
(***************************************************************************)
\* the largest raw value handed to try_enum
MaxRaw == 24

\* the raw values of a payload field
RawValues == (0 - 1)..MaxRaw

InitEnum ==
    /\ UpdQuiet
    /\ MemQuiet
    /\ EditQuiet
    /\ LoopQuiet
    /\ RestQuiet
    /\ PurgeQuiet
    /\ GatewayQuiet
    /\ RateQuiet
    /\ RaceQuiet
    /\ GuildQuiet
    /\ SnapQuiet
    /\ pin \in [cls : EnumClasses, val : RawValues]
    /\ pout = [ret |-> None, isinstance |-> None]

\* try_enum(cls, val)
TryEnum ==
    /\ pout.ret = None
    /\ pout' = [pout EXCEPT !.ret = Some(try_enum(pin.cls, pin.val))]
    /\ UNCHANGED pin
    /\ UNCHANGED <<coreVars, besidePure>>

\* isinstance(try_enum(cls, val), other)
IsInstance(other) ==
    /\ pout.ret # None
    /\ pout' = [pout EXCEPT
                  !.isinstance =
                      Some([cls |-> other,
                            verdict |-> __instancecheck__(other, pout.ret[1])])]
    /\ UNCHANGED pin
    /\ UNCHANGED <<coreVars, besidePure>>

NextEnum ==
    \/ TryEnum
    \/ \E other \in EnumClasses : IsInstance(other)

SpecEnum == InitEnum /\ [][NextEnum]_vars

\* the positions at which the class body declares the value
Declaring(cls, val) ==
    {i \in DOMAIN EnumAttrs[cls] : EnumAttrs[cls][i][2] = val}

\* C18: try_enum returns the first-declared member for a declared value and
\* otherwise a proxy named 'unknown_<value>' carrying the raw value; what it
\* returns is an instance of the enum class asked for and of no other.
C18_TryEnumTotalWithUnknownProxy ==
    /\ pout.ret # None =>
          LET r == pout.ret[1]
              decl == Declaring(pin.cls, pin.val)
          IN  /\ r.value = pin.val
              /\ IF decl # {}
                 THEN /\ r.name = EnumAttrs[pin.cls][CHOOSE i \in decl :
                                                     \A j \in decl : i <= j][1]
                      /\ r = _enum_value_map_(pin.cls)[pin.val]
                 ELSE r.name = "unknown_" \o ToString(pin.val)
    /\ pout.isinstance # None =>
          pout.isinstance[1].verdict = (pout.isinstance[1].cls = pin.cls)

C18_Witness ==
    /\ pin.cls = "VerificationLevel"
    /\ pin.val = 12
    /\ pout.ret # None
    /\ pout.ret[1].name = "unknown_12"
    /\ pout.isinstance # None
    /\ pout.isinstance[1].cls = "VerificationLevel"
    /\ pout.isinstance[1].verdict

\* C19: when a matching thread_member_list_update event was dispatched after
\* the request left and before the deadline, the fetch_members call has
\* received it and ends successfully, and never with the timeout.
C19_NoLostResponse ==
    (fpc = "done" /\ answered) =>
        /\ future # None
        /\ fresult.kind = "ok"

(***************************************************************************)
(* The old copy returned by Thread._update                                 *)
(***************************************************************************)
\* the update payloads delivered while member events arrive
SnapshotPayloads ==
    {p \in UpdatePayloads : DOMAIN p \subseteq {"name", "message_count"}}

\* the dict a thread object's _members slot refers to: copy.copy (line 191)
\* copies the reference, so the copy refers to the dict of the live thread
MembersOf(t) == IF t["_members"] = thread["_members"] THEN members ELSE <<>>

InitSnapshot ==
    /\ thread \in {_from_data(c) : c \in EditResponses}
    /\ inflight \in SnapshotPayloads
    /\ ndeliv = 0
    /\ prev = thread
    /\ rets = <<>>
    /\ \E withMe \in BOOLEAN :
          members =
              IF withMe
              THEN me_setter(<<>>,
                       ThreadMember_from_data("flags" :> 0, thread["id"], SelfId,
                                              CachedGuildMembers).member[1])
              ELSE <<>>
    /\ prevMembers = members
    /\ lastOp = NoOp
    /\ fpc = "idle"
    /\ future = None
    /\ elapsed = 0
    /\ fresult = None
    /\ memAtCall = members
    /\ evSince = FALSE
    /\ gatewayUp = TRUE
    /\ EditQuiet
    /\ LoopQuiet
    /\ ExtQuiet

\* the dispatcher hands the payload to Thread._update and keeps what it
\* returns
UpdateKeepingOld ==
    /\ ndeliv < MaxDeliveries
    /\ LET r == _update(thread, inflight)
       IN  /\ thread' = r.thread
           /\ rets' = Append(rets, r.ret)
           /\ snap' = IF r.ret # None
                      THEN Some([old |-> r.ret[1], members |-> MembersOf(r.ret[1])])
                      ELSE snap
    /\ prev' = thread
    /\ ndeliv' = ndeliv + 1
    /\ UNCHANGED inflight
    /\ UNCHANGED <<memVars, editVars, loopVars, besideSnapshot>>

NextSnapshot ==
    \/ UpdateKeepingOld
    \/ \E data \in MemberPayloads : AddMemberEvent(data)
    \/ \E id \in {IntOf[u] : u \in UserIdStrings} : PopMemberEvent(id)

SpecSnapshot == InitSnapshot /\ [][NextSnapshot]_vars

\* C21: the old copy returned by Thread._update stays as it was when it was
\* returned: the member map it gives access to is the map of that moment,
\* whatever _update, _add_member and _pop_member do to the live thread later.
C21_OldCopyIsStable ==
    snap # None => MembersOf(snap[1].old) = snap[1].members

(***************************************************************************)
(* Thread.edit: the payload and the called thread                          *)
(***************************************************************************)
\* the arguments of Thread.edit that are sent under their own name
SameNameArgs ==
    {"name", "archived", "auto_archive_duration", "locked", "invitable"}

\* C22: Thread.edit sends a payload holding exactly the supplied arguments,
\* slowmode_delay under the key rate_limit_per_user and the others under
\* their own name, returns a new Thread built from the response, and leaves
\* the called thread and its member map unchanged whether the request
\* succeeds or fails.
C22_EditSendsSuppliedKeysOnly ==
    /\ epc # "idle" =>
          LET payload == ereq[1].payload
          IN  /\ ereq[1].route = "edit_channel"
              /\ ereq[1].channel_id = thread["id"]
              /\ DOMAIN payload \subseteq SameNameArgs \cup {"rate_limit_per_user"}
              /\ \A a \in SameNameArgs :
                    /\ a \in DOMAIN payload <=> a \in DOMAIN eargs
                    /\ a \in DOMAIN eargs => payload[a] = eargs[a]
              /\ "rate_limit_per_user" \in DOMAIN payload
                    <=> "slowmode_delay" \in DOMAIN eargs
              /\ "slowmode_delay" \in DOMAIN eargs
                    => payload["rate_limit_per_user"] = eargs["slowmode_delay"]
    /\ (epc = "done" /\ eresult.kind = "ok") =>
          /\ eresult.thread # None
          /\ eresult.thread[1] \in {_from_data(d) : d \in EditResponses}
    /\ (epc = "done" /\ eresult.kind # "ok") =>
          /\ eresult.kind \in HttpErrors
          /\ eresult.thread = None
    /\ thread = prev
    /\ members = prevMembers

C22_Witness ==
    /\ epc = "done"
    /\ eresult.kind = "ok"
    /\ eresult.thread[1] # thread
    /\ DOMAIN eargs = {"slowmode_delay", "locked"}
    /\ members # <<>>

(***************************************************************************)
(* Thread.delete_messages                                                  *)
(***************************************************************************)
\* the longest collection of messages handed to delete_messages
MaxMessages == 3

\* the ids of the messages a caller may hand over
MessageIds == 1..3

\* the kinds of iterable a caller may hand over
IterableKinds == {"list", "tuple", "generator", "set"}

\* an iterable is its kind and the items it yields, in iteration order; a
\* set yields each element once
Iterables ==
    { [kind |-> k, items |-> q] :
        k \in IterableKinds,
        q \in UNION {[1..n -> MessageIds] : n \in 0..MaxMessages} } \
    { it \in [kind : {"set"},
              items : UNION {[1..n -> MessageIds] : n \in 0..MaxMessages}] :
        \E i, j \in DOMAIN it.items : i # j /\ it.items[i] = it.items[j] }

\* list(messages): the items the iterable yields, collected until it is
\* exhausted
RECURSIVE Collect(_, _)
Collect(items, acc) ==
    IF items = <<>> THEN acc ELSE Collect(Tail(items), Append(acc, Head(items)))

\* lines 417-418: a list or tuple is used as it is, anything else is
\* collected into a list
AsList(messages) ==
    IF messages.kind \in {"list", "tuple"}
    THEN messages
    ELSE [kind |-> "list", items |-> Collect(messages.items, <<>>)]

\* mutant: the request is issued for an empty collection too
delete_messages_AlwaysCalls(id, messages) ==
    <<[route |-> "_delete_messages", channel_id |-> id,
       messages |-> AsList(messages)]>>

\* lines 417-424: the calls of the state's _delete_messages helper one call
\* of Thread.delete_messages makes
delete_messages(id, messages) ==
    LET msgs == AsList(messages)
    IN  IF Len(msgs.items) = 0
        THEN <<>>
        ELSE <<[route |-> "_delete_messages", channel_id |-> id,
                messages |-> msgs]>>

InitDelete ==
    /\ UpdQuiet
    /\ MemQuiet
    /\ EditQuiet
    /\ LoopQuiet
    /\ RestQuiet
    /\ PurgeQuiet
    /\ GatewayQuiet
    /\ RateQuiet
    /\ RaceQuiet
    /\ GuildQuiet
    /\ SnapQuiet
    /\ pin \in [messages : Iterables]
    /\ pout = [pc |-> "idle", calls |-> <<>>]

\* delete_messages(messages) runs up to its await or its early return
DeleteMessagesCall ==
    /\ pout.pc = "idle"
    /\ LET calls == delete_messages(thread["id"], pin.messages)
       IN  pout' = [pc |-> IF calls = <<>> THEN "done" ELSE "awaiting",
                    calls |-> calls]
    /\ UNCHANGED pin
    /\ UNCHANGED <<coreVars, besidePure>>

\* line 424: the awaited helper completes and delete_messages returns
DeleteMessagesReturn ==
    /\ pout.pc = "awaiting"
    /\ pout' = [pout EXCEPT !.pc = "done"]
    /\ UNCHANGED pin
    /\ UNCHANGED <<coreVars, besidePure>>

NextDelete ==
    \/ DeleteMessagesCall
    \/ DeleteMessagesReturn

SpecDelete == InitDelete /\ [][NextDelete]_vars

\* C23: delete_messages with an empty collection issues no request; with a
\* non-empty iterable of any kind it issues exactly one bulk-delete call,
\* for this thread's id, carrying all the messages in the order the iterable
\* yields them.
C23_DeleteMessagesOneCallOrNone ==
    pout.pc # "idle" =>
        IF Len(pin.messages.items) = 0
        THEN pout.calls = <<>>
        ELSE /\ Len(pout.calls) = 1
             /\ pout.calls[1].route = "_delete_messages"
             /\ pout.calls[1].channel_id = thread["id"]
             /\ pout.calls[1].messages.items = pin.messages.items
             /\ pout.calls[1].messages.kind \in {"list", "tuple"}

C23_Witness ==
    /\ pout.pc = "done"
    /\ pin.messages.kind = "generator"
    /\ pin.messages.items = <<3, 1, 2>>
    /\ Len(pout.calls) = 1

(***************************************************************************)
(* The accessors of a thread that go through its parent channel            *)
(***************************************************************************)
\* what a property access or method call ends with
Returns(v) == [kind |-> "return", value |-> <<v>>]
Raises(exc, msg) == [kind |-> "raise", value |-> <<exc, msg>>]

\* lines 226-231
channel(t, guild) == parent(t, guild)

\* lines 282-301
category(t, guild) ==
    IF parent(t, guild) = None
    THEN Raises("ClientException", "Parent channel not found")
    ELSE Returns(CategoryOf(parent(t, guild)[1]))

\* lines 303-320
category_id(t, guild) ==
    IF parent(t, guild) = None
    THEN Raises("ClientException", "Parent channel not found")
    ELSE Returns(parent(t, guild)[1].category_id)

\* mutant: an uncached parent is reported the way the other accessors do
is_nsfw_Raising(t, guild) ==
    IF parent(t, guild) = None
    THEN Raises("ClientException", "Parent channel not found")
    ELSE Returns(parent(t, guild)[1].nsfw)

\* lines 351-358
is_nsfw(t, guild) ==
    Returns(parent(t, guild) # None /\ parent(t, guild)[1].nsfw)

\* lines 360-390
permissions_for(t, guild, obj) ==
    IF parent(t, guild) = None
    THEN Raises("ClientException", "Parent channel not found")
    ELSE Returns(parent(t, guild)[1].permissions[obj])

\* the accessors a caller may use
ParentAccessors ==
    {"parent", "channel", "category", "category_id", "is_nsfw",
     "permissions_for"}

InitParent ==
    /\ UpdQuiet
    /\ MemQuiet
    /\ EditQuiet
    /\ LoopQuiet
    /\ RestQuiet
    /\ PurgeQuiet
    /\ GatewayQuiet
    /\ RateQuiet
    /\ RaceQuiet
    /\ GuildQuiet
    /\ SnapQuiet
    /\ pin \in [guild : ChannelCaches]
    /\ pout = [op |-> "none", obj |-> "none", result |-> None]

\* the caller reads one accessor of the thread
ReadAccessor(op, obj) ==
    /\ pout.op = "none"
    /\ op = "permissions_for" <=> obj # "none"
    /\ pout' =
         [op |-> op, obj |-> obj,
          result |->
             Some(CASE op = "parent" -> Returns(parent(thread, pin.guild))
                    [] op = "channel" -> Returns(channel(thread, pin.guild))
                    [] op = "category" -> category(thread, pin.guild)
                    [] op = "category_id" -> category_id(thread, pin.guild)
                    [] op = "is_nsfw" -> is_nsfw(thread, pin.guild)
                    [] op = "permissions_for" ->
                           permissions_for(thread, pin.guild, obj))]
    /\ UNCHANGED pin
    /\ UNCHANGED <<coreVars, besidePure>>

NextParent ==
    \E op \in ParentAccessors, obj \in PermissionSubjects \cup {"none"} :
        ReadAccessor(op, obj)

SpecParent == InitParent /\ [][NextParent]_vars

\* C24: when the parent channel is not cached, category, category_id and
\* permissions_for raise ClientException('Parent channel not found'),
\* is_nsfw returns False without raising and parent and channel return None;
\* when it is cached each of them gives the parent's value.
C24_UncachedParentRaisesOrDefaults ==
    pout.result # None =>
        LET r == pout.result[1]
            cached == thread["parent_id"] \in DOMAIN pin.guild
            notFound == [kind |-> "raise",
                         value |-> <<"ClientException",
                                     "Parent channel not found">>]
        IN  IF ~cached
            THEN CASE pout.op \in {"category", "category_id", "permissions_for"}
                        -> r = notFound
                   [] pout.op = "is_nsfw"
                        -> r.kind = "return" /\ r.value[1] = FALSE
                   [] pout.op \in {"parent", "channel"}
                        -> r.kind = "return" /\ r.value[1] = None
            ELSE LET p == pin.guild[thread["parent_id"]]
                 IN  /\ r.kind = "return"
                     /\ CASE pout.op = "category"
                               -> r.value[1] = CategoryOf(p)
                          [] pout.op = "category_id"
                               -> r.value[1] = p.category_id
                          [] pout.op = "permissions_for"
                               -> r.value[1] = p.permissions[pout.obj]
                          [] pout.op = "is_nsfw"
                               -> r.value[1] = p.nsfw
                          [] pout.op \in {"parent", "channel"}
                               -> r.value[1] = Some(p)

C24_Witness ==
    /\ pout.op = "is_nsfw"
    /\ DOMAIN pin.guild = {77}
    /\ pin.guild[77].nsfw
    /\ pout.result # None
    /\ pout.result[1].kind = "return"

(***************************************************************************)
(* ThreadMember construction over the payload shapes                       *)
(***************************************************************************)
\* thread member payloads with every combination of present and absent keys
ThreadMemberShapes ==
    { MakeDict("user_id" :> u @@ "id" :> i @@ "join_timestamp" :> j
               @@ "flags" :> f @@ "member" :> g) :
        u \in Opt({"1", "2", "3"}), i \in Opt({"50"}),
        j \in Opt({"2022-01-09T00:00:00+00:00"}), f \in Opt(0..MaxFlags),
        g \in Opt(GuildMemberObjects) }

InitThreadMember ==
    /\ UpdQuiet
    /\ MemQuiet
    /\ EditQuiet
    /\ LoopQuiet
    /\ RestQuiet
    /\ PurgeQuiet
    /\ GatewayQuiet
    /\ RateQuiet
    /\ RaceQuiet
    /\ GuildQuiet
    /\ SnapQuiet
    /\ pin \in [data : ThreadMemberShapes]
    /\ pout = [result |-> None]

\* ThreadMember(thread, data)
ConstructThreadMember ==
    /\ pout.result = None
    /\ pout' = [result |-> Some(ThreadMember_from_data(pin.data, thread["id"],
                                                       SelfId,
                                                       CachedGuildMembers))]
    /\ UNCHANGED pin
    /\ UNCHANGED <<coreVars, besidePure>>

NextThreadMember == ConstructThreadMember

SpecThreadMember == InitThreadMember /\ [][NextThreadMember]_vars

\* C25: with the local user's id known, constructing a ThreadMember raises
\* for no payload shape: id is the payload's user_id when present and the
\* local user's id otherwise, thread_id is the payload's id when present and
\* the owning thread's id otherwise, and a nested guild member goes to the
\* guild-member update when the user is cached in the guild and to the add
\* otherwise, also when the payload carries the nested member only.
C25_ThreadMemberConstructionTotal ==
    pout.result # None =>
        LET r == pout.result[1]
            d == pin.data
        IN  /\ r.raised = ""
            /\ r.member # None
            /\ r.member[1].id = IF "user_id" \in DOMAIN d
                                THEN IntOf[d["user_id"]] ELSE SelfId
            /\ r.member[1].thread_id = IF "id" \in DOMAIN d
                                       THEN IntOf[d["id"]] ELSE thread["id"]
            /\ r.route = IF "member" \notin DOMAIN d THEN ""
                         ELSE IF r.member[1].id \in CachedGuildMembers
                              THEN "parse_guild_member_update"
                              ELSE "parse_guild_member_add"

(***************************************************************************)
(* Comparisons of enum members                                             *)
(***************************************************************************)
\* iter(cls): the members of an enum class
Members(cls) == {_enum_value_map_(cls)[v] : v \in DOMAIN _enum_value_map_(cls)}

\* isinstance(other, self.__class__): other is a named tuple of the value
\* class of self's enum
SameValueClass(self, other) == other.cls = self.cls

\* mutant: the values are compared whatever the class of the other operand
__le___AnyClass(self, other) == self.value <= other.value

\* lines 85-89: the comparisons _create_value_cls gives a comparable enum
__le__(self, other) == SameValueClass(self, other) /\ self.value <= other.value
__ge__(self, other) == SameValueClass(self, other) /\ self.value >= other.value
__lt__(self, other) == SameValueClass(self, other) /\ self.value < other.value
__gt__(self, other) == SameValueClass(self, other) /\ self.value > other.value

\* the equality a named tuple inherits from tuple: field by field
__eq__(self, other) == self.name = other.name /\ self.value = other.value

InitCompare ==
    /\ UpdQuiet
    /\ MemQuiet
    /\ EditQuiet
    /\ LoopQuiet
    /\ RestQuiet
    /\ PurgeQuiet
    /\ GatewayQuiet
    /\ RateQuiet
    /\ RaceQuiet
    /\ GuildQuiet
    /\ SnapQuiet
    /\ pin \in [a : UNION {Members(c) : c \in ComparableEnums},
                b : UNION {Members(c) : c \in EnumClasses}]
    /\ pout = None

\* a caller evaluates a < b, a <= b, a > b, a >= b and a == b
Compare ==
    /\ pout = None
    /\ pout' = Some([lt |-> __lt__(pin.a, pin.b), le |-> __le__(pin.a, pin.b),
                     gt |-> __gt__(pin.a, pin.b), ge |-> __ge__(pin.a, pin.b),
                     eq |-> __eq__(pin.a, pin.b)])
    /\ UNCHANGED pin
    /\ UNCHANGED <<coreVars, besidePure>>

NextCompare == Compare

SpecCompare == InitCompare /\ [][NextCompare]_vars

\* C26: two members of the same comparable enum satisfy exactly one of
\* a < b, a == b, a > b, the one their values satisfy, and a <= b holds
\* exactly when a > b does not; each of <, <=, >, >= is False when the other
\* operand belongs to a different enum class.
C26_ComparableEnumsOrderedByValue ==
    pout # None =>
        LET r == pout[1]
            a == pin.a
            b == pin.b
        IN  IF a.cls = b.cls
            THEN /\ r.lt = (a.value < b.value)
                 /\ r.eq = (a.value = b.value)
                 /\ r.gt = (a.value > b.value)
                 /\ Cardinality({x \in {"lt", "eq", "gt"} : r[x]}) = 1
                 /\ r.le = ~r.gt
                 /\ r.ge = ~r.lt
            ELSE ~r.lt /\ ~r.le /\ ~r.gt /\ ~r.ge

C26_Witness ==
    /\ pout # None
    /\ pin.a.cls = "ContentFilter"
    /\ pin.b.cls = "NSFWLevel"
    /\ pin.a.value < pin.b.value
    /\ ~pout[1].le

(***************************************************************************)
(* Enum aliases                                                            *)
(***************************************************************************)
\* mutant: every declared name is listed, an alias included
_enum_member_names__AllKeys(cls) ==
    [i \in DOMAIN EnumAttrs[cls] |-> EnumAttrs[cls][i][1]]

RECURSIVE NamesFrom(_, _, _)
\* lines 108-127: the loop over the class body from position i on, with the
\* values seen so far; a name is appended only when its value is new
NamesFrom(attrs, i, seen) ==
    IF i > Len(attrs) THEN <<>>
    ELSE IF attrs[i][2] \in seen THEN NamesFrom(attrs, i + 1, seen)
    ELSE <<attrs[i][1]>> \o NamesFrom(attrs, i + 1, seen \cup {attrs[i][2]})

\* EnumMeta.__new__: member_names
_enum_member_names_(cls) == NamesFrom(EnumAttrs[cls], 1, {})

\* EnumMeta.__new__: member_mapping, every declared name to the member of its
\* value
_enum_member_map_(cls) ==
    LET attrs == EnumAttrs[cls]
    IN  [n \in {attrs[i][1] : i \in DOMAIN attrs} |->
            _enum_value_map_(cls)[attrs[CHOOSE i \in DOMAIN attrs :
                                           attrs[i][1] = n][2]]]

\* EnumMeta.__iter__
__iter__(cls) ==
    [i \in DOMAIN _enum_member_names_(cls) |->
        _enum_member_map_(cls)[_enum_member_names_(cls)[i]]]

\* EnumMeta.__len__
__len__(cls) == Len(_enum_member_names_(cls))

\* EnumMeta.__call__: Enum(value)
__call__(cls, value) ==
    IF value \in DOMAIN _enum_value_map_(cls)
    THEN Returns(_enum_value_map_(cls)[value])
    ELSE Raises("ValueError", cls)

\* Enum.try_value: the member, or the value itself when it is not declared
try_value(cls, value) ==
    IF value \in DOMAIN _enum_value_map_(cls)
    THEN Returns(_enum_value_map_(cls)[value])
    ELSE Returns(value)

InitAlias ==
    /\ UpdQuiet
    /\ MemQuiet
    /\ EditQuiet
    /\ LoopQuiet
    /\ RestQuiet
    /\ PurgeQuiet
    /\ GatewayQuiet
    /\ RateQuiet
    /\ RaceQuiet
    /\ GuildQuiet
    /\ SnapQuiet
    /\ pin \in [cls : EnumClasses, val : RawValues]
    /\ pout = [byValue |-> None, byName |-> None, listed |-> None]

\* Enum(value), Enum.try_value(value) and try_enum(Enum, value)
LookupByValue ==
    /\ pout.byValue = None
    /\ pout' = [pout EXCEPT
                  !.byValue = Some([call |-> __call__(pin.cls, pin.val),
                                    try_value |-> try_value(pin.cls, pin.val),
                                    try_enum |-> try_enum(pin.cls, pin.val)])]
    /\ UNCHANGED pin
    /\ UNCHANGED <<coreVars, besidePure>>

\* Enum.name for every name of the class body
LookupByName ==
    /\ pout.byName = None
    /\ pout' = [pout EXCEPT !.byName = Some(_enum_member_map_(pin.cls))]
    /\ UNCHANGED pin
    /\ UNCHANGED <<coreVars, besidePure>>

\* list(Enum) and len(Enum)
Enumerate ==
    /\ pout.listed = None
    /\ pout' = [pout EXCEPT !.listed = Some([iter |-> __iter__(pin.cls),
                                             len |-> __len__(pin.cls)])]
    /\ UNCHANGED pin
    /\ UNCHANGED <<coreVars, besidePure>>

NextAlias ==
    \/ LookupByValue
    \/ LookupByName
    \/ Enumerate

SpecAlias == InitAlias /\ [][NextAlias]_vars

\* the position of the first declaration of the value at position i
FirstDeclaring(cls, i) ==
    CHOOSE k \in Declaring(cls, EnumAttrs[cls][i][2]) :
        \A j \in Declaring(cls, EnumAttrs[cls][i][2]) : k <= j

\* C27: an enum class has one member per distinct value; a name declared
\* with a value already used resolves to the member of the first name
\* declared with that value; Enum(value), try_value and try_enum return that
\* member; len and iteration give one member per distinct value, in
\* declaration order; Enum(value) raises ValueError for an undeclared value.
C27_AliasesResolveToFirstDeclared ==
    LET attrs == EnumAttrs[pin.cls]
        decl == Declaring(pin.cls, pin.val)
        firsts == {i \in DOMAIN attrs : FirstDeclaring(pin.cls, i) = i}
    IN  /\ pout.byName # None =>
              \A i \in DOMAIN attrs :
                  LET mem == pout.byName[1][attrs[i][1]]
                  IN  /\ mem.value = attrs[i][2]
                      /\ mem.name = attrs[FirstDeclaring(pin.cls, i)][1]
                      /\ mem = pout.byName[1][attrs[FirstDeclaring(pin.cls, i)][1]]
        /\ pout.byValue # None =>
              LET r == pout.byValue[1]
              IN  IF decl # {}
                  THEN LET first == CHOOSE k \in decl : \A j \in decl : k <= j
                           mem == [cls |-> pin.cls, name |-> attrs[first][1],
                                   value |-> pin.val]
                       IN  /\ r.call = [kind |-> "return", value |-> <<mem>>]
                           /\ r.try_value = [kind |-> "return", value |-> <<mem>>]
                           /\ r.try_enum = mem
                  ELSE /\ r.call.kind = "raise"
                       /\ r.call.value[1] = "ValueError"
        /\ pout.listed # None =>
              LET l == pout.listed[1]
              IN  /\ l.len = Cardinality({attrs[i][2] : i \in DOMAIN attrs})
                  /\ Len(l.iter) = l.len
                  /\ \A i, j \in DOMAIN l.iter :
                        i # j => l.iter[i].value # l.iter[j].value
                  /\ \A i \in DOMAIN l.iter :
                        \E k \in firsts :
                            /\ l.iter[i].name = attrs[k][1]
                            /\ l.iter[i].value = attrs[k][2]
                            /\ Cardinality({f \in firsts : f <= k}) = i

C27_Witness ==
    /\ pin.cls = "MessageType"
    /\ pin.val = 7
    /\ pout.byValue # None
    /\ pout.byValue[1].try_enum.name = "member_join"
    /\ pout.byName # None
    /\ pout.byName[1]["new_member"].name = "member_join"
    /\ pout.listed # None
    /\ pout.listed[1].len = 24

(***************************************************************************)
(* FriendFlags and its dict form                                           *)
(***************************************************************************)
\* the keys of the dict form
FriendKeys == {"all", "mutual_friends", "mutual_guilds"}

\* dicts holding any of the three keys, each a boolean
FriendDicts == UNION {[ks -> BOOLEAN] : ks \in SUBSET FriendKeys}

\* the dict form of three booleans
FriendDict(all, friends, guilds) ==
    "all" :> all @@ "mutual_friends" :> friends @@ "mutual_guilds" :> guilds

\* lines 328-338: FriendFlags.to_dict; a value outside 0..4 falls off the
\* end of the method, which returns None
to_dict(self) ==
    CASE self.value = 0 -> Some(FriendDict(FALSE, FALSE, FALSE))
      [] self.value = 1 -> Some(FriendDict(FALSE, FALSE, TRUE))
      [] self.value = 2 -> Some(FriendDict(FALSE, TRUE, FALSE))
      [] self.value = 3 -> Some(FriendDict(FALSE, TRUE, TRUE))
      [] self.value = 4 -> Some(FriendDict(TRUE, TRUE, TRUE))
      [] OTHER -> None

\* data.get(key) taken as a condition: a missing key gives None, which is
\* false
Truthy(data, key) == key \in DOMAIN data /\ data[key]

\* mutant: mutual_guilds is tested before the pair
_from_dict_GuildsFirst(data) ==
    _enum_member_map_("FriendFlags")[
        IF Truthy(data, "all") THEN "everyone"
        ELSE IF Truthy(data, "mutual_guilds") THEN "mutual_guilds"
        ELSE IF Truthy(data, "mutual_guilds") /\ Truthy(data, "mutual_friends")
             THEN "guild_and_friends"
        ELSE IF Truthy(data, "mutual_friends") THEN "mutual_friends"
        ELSE "noone"]

\* lines 340-355: FriendFlags._from_dict
_from_dict(data) ==
    _enum_member_map_("FriendFlags")[
        IF Truthy(data, "all") THEN "everyone"
        ELSE IF Truthy(data, "mutual_guilds") /\ Truthy(data, "mutual_friends")
             THEN "guild_and_friends"
        ELSE IF Truthy(data, "mutual_guilds") THEN "mutual_guilds"
        ELSE IF Truthy(data, "mutual_friends") THEN "mutual_friends"
        ELSE "noone"]

InitFriend ==
    /\ UpdQuiet
    /\ MemQuiet
    /\ EditQuiet
    /\ LoopQuiet
    /\ RestQuiet
    /\ PurgeQuiet
    /\ GatewayQuiet
    /\ RateQuiet
    /\ RaceQuiet
    /\ GuildQuiet
    /\ SnapQuiet
    /\ pin \in [f : {try_enum("FriendFlags", v) : v \in RawValues},
                d : FriendDicts]
    /\ pout = [fromFlag |-> None, fromDict |-> None]

\* FriendFlags._from_dict(f.to_dict()), when f.to_dict() is a dict
FlagToDictAndBack ==
    /\ pout.fromFlag = None
    /\ pout' = [pout EXCEPT
                  !.fromFlag =
                      Some([dict |-> to_dict(pin.f),
                            back |-> IF to_dict(pin.f) = None THEN None
                                     ELSE Some(_from_dict(to_dict(pin.f)[1]))])]
    /\ UNCHANGED pin
    /\ UNCHANGED <<coreVars, besidePure>>

\* FriendFlags._from_dict(d).to_dict()
DictToFlagAndBack ==
    /\ pout.fromDict = None
    /\ pout' = [pout EXCEPT
                  !.fromDict = Some([flag |-> _from_dict(pin.d),
                                     back |-> to_dict(_from_dict(pin.d))])]
    /\ UNCHANGED pin
    /\ UNCHANGED <<coreVars, besidePure>>

NextFriend ==
    \/ FlagToDictAndBack
    \/ DictToFlagAndBack

SpecFriend == InitFriend /\ [][NextFriend]_vars

\* the dicts to_dict returns for the members of FriendFlags
ProducedDicts ==
    { FriendDict(FALSE, FALSE, FALSE), FriendDict(FALSE, FALSE, TRUE),
      FriendDict(FALSE, TRUE, FALSE), FriendDict(FALSE, TRUE, TRUE),
      FriendDict(TRUE, TRUE, TRUE) }

\* C28: for every member f of FriendFlags, _from_dict(f.to_dict()) is f, and
\* for every dict d that to_dict can produce, _from_dict(d).to_dict() is d.
C28_FriendFlagsRoundTrip ==
    /\ (pout.fromFlag # None /\ pin.f.value \in 0..4) =>
          /\ pout.fromFlag[1].dict # None
          /\ pout.fromFlag[1].dict[1] \in ProducedDicts
          /\ pout.fromFlag[1].back = Some(pin.f)
    /\ (pout.fromDict # None /\ pin.d \in ProducedDicts) =>
          pout.fromDict[1].back = Some(pin.d)

C28_Witness ==
    /\ pin.f.name = "guild_and_friends"
    /\ pout.fromFlag # None
    /\ pout.fromFlag[1].back = Some(pin.f)
    /\ pin.d = FriendDict(FALSE, TRUE, TRUE)
    /\ pout.fromDict # None
    /\ pout.fromDict[1].flag.value = 3

(***************************************************************************)
(* PartialApplication and Application: slots and construction              *)
(***************************************************************************)
RECURSIVE JoinLiterals(_)
\* adjacent string literals with no comma between them are one string
JoinLiterals(lits) ==
    IF lits = <<>> THEN "" ELSE Head(lits) \o JoinLiterals(Tail(lits))

\* the elements of the __slots__ tuples as written: each element is the run
\* of string literals up to the next comma
SlotLiterals ==
    "PartialApplication" :>
        << <<"_state">>, <<"id">>, <<"name">>, <<"description">>,
           <<"rpc_origins">>, <<"summary">>, <<"verify_key">>,
           <<"terms_of_service_url">>, <<"privacy_policy_url">>, <<"_icon">>,
           <<"_flags", "_cover_image">>, <<"public">>,
           <<"require_code_grant">>, <<"type">>, <<"hook">>,
           <<"premium_tier_level">>, <<"tags">> >>
    @@ "Application" :>
        << <<"owner">>, <<"team">>, <<"guild_id">>, <<"primary_sku_id">>,
           <<"slug">>, <<"secret">>, <<"redirect_uris">>, <<"bot">>,
           <<"verification_state">>, <<"store_application_state">>,
           <<"rpc_application_state">>,
           <<"interactions_endpoint_url">> >>

\* the base classes, nearest first, ending with the class itself
ApplicationMro ==
    "PartialApplication" :> <<"PartialApplication">>
    @@ "Application" :> <<"PartialApplication", "Application">>

\* the attributes an instance has room for: the slots of the class and of
\* its bases; no class of the two has a __dict__
SlotsOf(cls) ==
    UNION { {JoinLiterals(SlotLiterals[c][i]) : i \in DOMAIN SlotLiterals[c]} :
              c \in {ApplicationMro[cls][k] : k \in DOMAIN ApplicationMro[cls]} }

\* the assignments of the _update methods in order: the attribute set and
\* the payload key it is read from
UpdateAssignments ==
    "PartialApplication" :>
        << <<"id", "id">>, <<"name", "name">>, <<"description", "description">>,
           <<"rpc_origins", "rpc_origins">>, <<"summary", "summary">>,
           <<"verify_key", "verify_key">>, <<"_icon", "icon">>,
           <<"_cover_image", "cover_image">>,
           <<"terms_of_service_url", "terms_of_service_url">>,
           <<"privacy_policy_url", "privacy_policy_url">>,
           <<"_flags", "flags">>, <<"type", "type">>, <<"hook", "hook">>,
           <<"max_participants", "max_participants">>,
           <<"premium_tier_level", "embedded_activity_config">>,
           <<"tags", "tags">>, <<"public", "integration_public">>,
           <<"require_code_grant", "integration_require_code_grant">> >>
    @@ "Application" :>
        << <<"secret", "secret">>, <<"redirect_uris", "redirect_uris">>,
           <<"guild_id", "guild_id">>,
           <<"verification_state", "verification_state">>,
           <<"store_application_state", "store_application_state">>,
           <<"rpc_application_state", "rpc_application_state">>,
           <<"primary_sku_id", "primary_sku_id">>, <<"slug", "slug">>,
           <<"interactions_endpoint_url", "interactions_endpoint_url">>,
           <<"team", "team">>, <<"bot", "bot">>, <<"owner", "owner">> >>

\* the names ApplicationType declares for its integer values; its first
\* member, none, has the value None
ApplicationTypeNames ==
    <<"game", "music", "ticketed_events", "guild_role_subscriptions">>

\* try_enum(ApplicationType, data.get('type')): raw is None for an absent
\* key; the member's value is kept the way raw is, None being the value of
\* ApplicationType.none
try_enum_ApplicationType(raw) ==
    IF raw = None
    THEN [cls |-> "ApplicationType", name |-> "none", value |-> None]
    ELSE IF raw[1] \in DOMAIN ApplicationTypeNames
    THEN [cls |-> "ApplicationType", name |-> ApplicationTypeNames[raw[1]],
          value |-> raw]
    ELSE [cls |-> "ApplicationType", name |-> "unknown_" \o ToString(raw[1]),
          value |-> raw]

\* the value an assignment of the _update methods stores in the attribute
\* a[1], given the payload and the object as assigned so far; None stands
\* for Python's None and Some(v) for any other value
Stored(a, data, obj) ==
    LET attr == a[1]
        key == a[2]
        get == IF key \in DOMAIN data THEN Some(data[key]) ELSE None
    IN  CASE attr = "id" -> Some(IntOf[data["id"]])
          [] attr \in {"name", "description", "summary", "verify_key",
                       "secret", "interactions_endpoint_url"}
               -> Some(data[key])
          [] attr = "_flags" -> Some(Get(data, "flags", 0))
          [] attr = "type" -> Some(try_enum_ApplicationType(get))
          [] attr = "hook" -> Some(Get(data, "hook", FALSE))
          [] attr = "premium_tier_level"
               -> LET config == Get(data, "embedded_activity_config", <<>>)
                  IN  IF "activity_premium_tier_level" \in DOMAIN config
                      THEN Some(config["activity_premium_tier_level"])
                      ELSE None
          [] attr \in {"tags", "redirect_uris"} -> Some(Get(data, key, <<>>))
          [] attr = "public"
               -> Some(Get(data, "integration_public",
                           Get(data, "bot_public", TRUE)))
          [] attr = "require_code_grant"
               -> Some(Get(data, "integration_require_code_grant",
                           Get(data, "bot_require_code_grant", FALSE)))
          [] attr \in {"guild_id", "primary_sku_id"}
               -> _get_as_snowflake(data, key)
          [] attr = "verification_state"
               -> Some(try_enum("ApplicationVerificationState", data[key]))
          [] attr = "store_application_state"
               -> Some(try_enum("StoreApplicationState", data[key]))
          [] attr = "rpc_application_state"
               -> Some(try_enum("RPCApplicationState", data[key]))
          [] attr = "team"
               -> IF get # None /\ get[1] # <<>>
                  THEN Some([cls |-> "Team", data |-> get[1]])
                  ELSE None
          [] attr = "bot"
               -> IF get # None /\ get[1] # <<>>
                  THEN Some([cls |-> "ApplicationBot",
                             token |-> get[1]["token"],
                             public |-> Get(data, "bot_public",
                                            obj["public"][1]),
                             require_code_grant |->
                                 Get(data, "bot_require_code_grant",
                                     obj["require_code_grant"][1])])
                  ELSE None
          [] attr = "owner"
               -> IF get # None /\ IntOf[get[1]["id"]] # SelfId
                  THEN Some([cls |-> "User", id |-> IntOf[get[1]["id"]]])
                  ELSE Some([cls |-> "ClientUser", id |-> SelfId])
          [] OTHER -> get

\* Application._update calls super()._update first
AssignmentsOf(cls) ==
    IF cls = "Application"
    THEN UpdateAssignments["PartialApplication"] \o UpdateAssignments["Application"]
    ELSE UpdateAssignments["PartialApplication"]

\* complete application payloads: the required keys and any of the optional
\* ones
ApplicationPayloads ==
    { ("id" :> "3" @@ "name" :> "app" @@ "description" :> "text"
       @@ "summary" :> "sum" @@ "verify_key" :> "key" @@ "secret" :> "s"
       @@ "verification_state" :> 1 @@ "store_application_state" :> 1
       @@ "rpc_application_state" :> 0
       @@ "interactions_endpoint_url" :> "url")
      @@ MakeDict("icon" :> ic @@ "cover_image" :> ci @@ "rpc_origins" :> ro
                  @@ "max_participants" :> mp) :
        ic \in Opt({"icon"}), ci \in Opt({"cover"}), ro \in Opt({"origin"}),
        mp \in Opt({4}) }

InitApplication ==
    /\ UpdQuiet
    /\ MemQuiet
    /\ EditQuiet
    /\ LoopQuiet
    /\ RestQuiet
    /\ PurgeQuiet
    /\ GatewayQuiet
    /\ RateQuiet
    /\ RaceQuiet
    /\ GuildQuiet
    /\ SnapQuiet
    /\ pin \in [cls : DOMAIN SlotLiterals, data : ApplicationPayloads]
    /\ pout = [pc |-> 0, obj |-> <<>>, raised |-> ""]

\* __init__ begins: self._state = state
ConstructApplication ==
    /\ pout.pc = 0
    /\ pout' = IF "_state" \in SlotsOf(pin.cls)
               THEN [pout EXCEPT !.pc = 1, !.obj = "_state" :> Some("state")]
               ELSE [pout EXCEPT !.pc = 1, !.raised = "AttributeError"]
    /\ UNCHANGED pin
    /\ UNCHANGED <<coreVars, besidePure>>

\* the next assignment of _update: it stores what it read from the payload
\* when the attribute is a slot, and raises AttributeError otherwise
AssignNextAttribute ==
    /\ pout.pc \in 1..Len(AssignmentsOf(pin.cls))
    /\ pout.raised = ""
    /\ LET a == AssignmentsOf(pin.cls)[pout.pc]
       IN  pout' = IF a[1] \in SlotsOf(pin.cls)
                   THEN [pout EXCEPT !.pc = @ + 1,
                                     !.obj = (a[1] :> Stored(a, pin.data, pout.obj)) @@ @]
                   ELSE [pout EXCEPT !.raised = "AttributeError"]
    /\ UNCHANGED pin
    /\ UNCHANGED <<coreVars, besidePure>>

NextApplication ==
    \/ ConstructApplication
    \/ AssignNextAttribute

SpecApplication == InitApplication /\ [][NextApplication]_vars

\* C29: constructing a PartialApplication or an Application from a complete
\* payload raises nothing: every attribute _update assigns is a slot of the
\* class, and when the assignments have run every one of them is readable.
C29_ConstructionCompletes ==
    /\ pout.raised = ""
    /\ pout.pc > Len(AssignmentsOf(pin.cls)) =>
          \A i \in DOMAIN AssignmentsOf(pin.cls) :
              AssignmentsOf(pin.cls)[i][1] \in DOMAIN pout.obj

(***************************************************************************)
(* Application.edit                                                        *)
(***************************************************************************)
RECURSIVE AssignFrom(_, _, _, _)
\* the assignments of _update from position i on: each stores what it read
\* from the payload; the first attribute that is not a slot raises
\* AttributeError and ends the method
AssignFrom(cls, obj, data, i) ==
    IF i > Len(AssignmentsOf(cls)) THEN [obj |-> obj, raised |-> ""]
    ELSE LET a == AssignmentsOf(cls)[i]
         IN  IF a[1] \in SlotsOf(cls)
             THEN AssignFrom(cls, (a[1] :> Stored(a, data, obj)) @@ obj, data, i + 1)
             ELSE [obj |-> obj, raised |-> "AttributeError"]

\* Application._update(data) on the object obj
Application_update(obj, data) == AssignFrom("Application", obj, data, 1)

\* the application as the server holds it
ServerApplications ==
    [name : {"app"}, public : BOOLEAN, bot_public : {TRUE}, team : {None}]

\* the application payload the server answers with
ApplicationPayloadOf(app) ==
    ("id" :> "3" @@ "name" :> app.name @@ "description" :> "text"
     @@ "summary" :> "sum" @@ "verify_key" :> "key" @@ "secret" :> "s"
     @@ "verification_state" :> 1 @@ "store_application_state" :> 1
     @@ "rpc_application_state" :> 0 @@ "interactions_endpoint_url" :> "url"
     @@ "integration_public" :> app.public @@ "bot_public" :> app.bot_public)
    @@ MakeDict("team" :> (IF app.team = None THEN None
                           ELSE Some("id" :> ToString(app.team[1]))))

\* the keyword arguments of Application.edit the model supplies: a name may
\* be None, a string or the empty string
ApplicationEditArgs ==
    { MakeDict("name" :> nm @@ "public" :> pb @@ "team" :> tm) :
        nm \in Opt({None, Some(""), Some("renamed")}), pb \in Opt(BOOLEAN),
        tm \in Opt({9}) }

\* x or '': the empty string for None and for the empty string
OrEmpty(x) == IF x = None THEN "" ELSE x[1]

\* lines 410-442: the payload of the edit request
ApplicationEditPayload(args) ==
    MakeDict("name" :> (IF "name" \in DOMAIN args
                        THEN Some(OrEmpty(args["name"])) ELSE None)
             @@ "integration_public" :> (IF "public" \in DOMAIN args
                                         THEN Some(args["public"]) ELSE None))

\* the server applies an edit request
ServerEdit(app, payload) ==
    [app EXCEPT !.name = Get(payload, "name", @),
                !.public = Get(payload, "integration_public", @),
                !.bot_public = Get(payload, "bot_public", @)]

\* the server applies a transfer request
ServerTransfer(app, team) == [app EXCEPT !.team = Some(team)]

\* that the local object shows what the server holds
Reflects(obj, app) ==
    /\ {"name", "public", "team"} \subseteq DOMAIN obj
    /\ obj["name"] = Some(app.name)
    /\ obj["public"] = Some(app.public)
    /\ obj["team"] = (IF app.team = None THEN None
                      ELSE Some([cls |-> "Team",
                                 data |-> "id" :> ToString(app.team[1])]))

\* the other methods that write the local application: Application.
\* reset_secret, ApplicationBot.edit of a bot attached to it, and
\* Application.create_bot
OtherOps == {"reset_secret", "bot_edit", "create_bot"}

\* lines 125-129, 462, 483: the request each of them issues
OtherRequest(op, id, public) ==
    [route |-> CASE op = "reset_secret" -> "reset_secret"
                 [] op = "bot_edit" -> "edit_application"
                 [] op = "create_bot" -> "botify_app",
     id |-> id,
     payload |-> IF op = "bot_edit" THEN MakeDict("bot_public" :> public)
                 ELSE <<>>]

\* no other method has been called
OtherIdle == [op |-> "", pc |-> "idle", req |-> None, data |-> None,
              raised |-> ""]

\* an application known locally, as construction left it, and on the server
InitAppEdit ==
    /\ UpdQuiet
    /\ MemQuiet
    /\ EditQuiet
    /\ LoopQuiet
    /\ RestQuiet
    /\ PurgeQuiet
    /\ GatewayQuiet
    /\ RateQuiet
    /\ RaceQuiet
    /\ GuildQuiet
    /\ SnapQuiet
    /\ pin \in [args : ApplicationEditArgs, server : ServerApplications]
    /\ pout = [pc |-> "idle", reqs |-> <<>>, server |-> pin.server,
               data |-> None, applied |-> 0, updates |-> 0,
               editUpdates |-> 0, raised |-> "",
               local |-> Application_update("_state" :> Some("state"),
                             ApplicationPayloadOf(pin.server)).obj,
               other |-> OtherIdle]

\* lines 410-444: the payload is built and the edit request issued
AppEditCall ==
    /\ pout.pc = "idle"
    /\ pout' = [pout EXCEPT
                  !.pc = "edit",
                  !.reqs = <<[route |-> "edit_application",
                              id |-> pout.local["id"][1],
                              payload |-> ApplicationEditPayload(pin.args)]>>]
    /\ UNCHANGED pin
    /\ UNCHANGED <<coreVars, besidePure>>

\* the server applies the edit and answers; lines 445-446: with a team the
\* transfer request follows
AppEditApplied ==
    /\ pout.pc = "edit"
    /\ LET app == ServerEdit(pout.server, pout.reqs[1].payload)
       IN  pout' = [pout EXCEPT
                      !.server = app,
                      !.data = Some(ApplicationPayloadOf(app)),
                      !.applied = @ + 1,
                      !.pc = IF "team" \in DOMAIN pin.args
                             THEN "transfer" ELSE "update",
                      !.reqs = IF "team" \in DOMAIN pin.args
                               THEN Append(@, [route |-> "transfer_application",
                                               id |-> pout.local["id"][1],
                                               payload |-> "team_id" :> pin.args["team"]])
                               ELSE @]
    /\ UNCHANGED pin
    /\ UNCHANGED <<coreVars, besidePure>>

\* the server applies the transfer and answers
AppTransferApplied ==
    /\ pout.pc = "transfer"
    /\ LET app == ServerTransfer(pout.server, pin.args["team"])
       IN  pout' = [pout EXCEPT !.server = app,
                                !.data = Some(ApplicationPayloadOf(app)),
                                !.applied = @ + 1,
                                !.pc = "update"]
    /\ UNCHANGED pin
    /\ UNCHANGED <<coreVars, besidePure>>

\* the request in flight fails: the await raises and edit ends there
AppRequestFails(err) ==
    /\ pout.pc \in {"edit", "transfer"}
    /\ pout' = [pout EXCEPT !.pc = "done", !.raised = err]
    /\ UNCHANGED pin
    /\ UNCHANGED <<coreVars, besidePure>>

\* line 448: self._update(data)
AppUpdateLocal ==
    /\ pout.pc = "update"
    /\ LET r == Application_update(pout.local, pout.data[1])
       IN  pout' = [pout EXCEPT !.local = r.obj, !.raised = r.raised,
                                !.updates = @ + 1, !.editUpdates = @ + 1,
                                !.pc = "done"]
    /\ UNCHANGED pin
    /\ UNCHANGED <<coreVars, besidePure>>

\* lines 125-129, 462, 483: another task calls reset_secret, the edit of the
\* application's bot or create_bot, which issues its request
OtherCall(op, public) ==
    /\ pout.other.pc = "idle"
    /\ public # None => op = "bot_edit"
    /\ pout' = [pout EXCEPT
                  !.other = [op |-> op, pc |-> "awaiting",
                             req |-> Some(OtherRequest(op, pout.local["id"][1],
                                                       public)),
                             data |-> None, raised |-> ""]]
    /\ UNCHANGED pin
    /\ UNCHANGED <<coreVars, besidePure>>

\* the server applies that request and answers: with the application, or
\* with the bot for create_bot
OtherApplied ==
    /\ pout.other.pc = "awaiting"
    /\ LET app == IF pout.other.op = "bot_edit"
                  THEN ServerEdit(pout.server, pout.other.req[1].payload)
                  ELSE pout.server
       IN  pout' = [pout EXCEPT
                      !.server = app,
                      !.other.pc = "answered",
                      !.other.data =
                          Some(IF pout.other.op = "create_bot"
                               THEN "token" :> "t"
                               ELSE ApplicationPayloadOf(app))]
    /\ UNCHANGED pin
    /\ UNCHANGED <<coreVars, besidePure>>

\* that request fails: the await raises and the method ends there
OtherFails(err) ==
    /\ pout.other.pc = "awaiting"
    /\ pout' = [pout EXCEPT !.other.pc = "done", !.other.raised = err]
    /\ UNCHANGED pin
    /\ UNCHANGED <<coreVars, besidePure>>

\* lines 130-132, 463: reset_secret and the bot's edit call _update of the
\* application with the answer; lines 485-489: create_bot reads self.public
\* and self.require_code_grant, which raises AttributeError for a slot never
\* assigned, and then assigns self.bot
OtherResume ==
    /\ pout.other.pc = "answered"
    /\ IF pout.other.op = "create_bot"
       THEN pout' =
              IF {"public", "require_code_grant"} \subseteq DOMAIN pout.local
              THEN [pout EXCEPT !.local = ("bot" :> Some("bot")) @@ @,
                                !.other.pc = "done"]
              ELSE [pout EXCEPT !.other.pc = "done",
                                !.other.raised = "AttributeError"]
       ELSE LET r == Application_update(pout.local, pout.other.data[1])
            IN  pout' = [pout EXCEPT !.local = r.obj,
                                     !.updates = @ + 1,
                                     !.other.pc = "done",
                                     !.other.raised = r.raised]
    /\ UNCHANGED pin
    /\ UNCHANGED <<coreVars, besidePure>>

NextAppEdit ==
    \/ AppEditCall
    \/ AppEditApplied
    \/ AppTransferApplied
    \/ \E err \in HttpErrors : AppRequestFails(err)
    \/ AppUpdateLocal
    \/ \E op \in OtherOps, public \in Opt(BOOLEAN) : OtherCall(op, public)
    \/ OtherApplied
    \/ \E err \in HttpErrors : OtherFails(err)
    \/ OtherResume

SpecAppEdit == InitAppEdit /\ [][NextAppEdit]_vars

\* C30: Application.edit issues the edit request first and the transfer
\* request second, the latter only when a team is given; it updates the
\* local application once, from the last response; and when it has ended,
\* every request the server applied shows in the local application, also
\* when the edit was applied and the transfer failed.
C30_LocalApplicationFollowsServer ==
    /\ pout.reqs # <<>> => pout.reqs[1].route = "edit_application"
    /\ Len(pout.reqs) <= 2
    /\ Len(pout.reqs) = 2 =>
          /\ "team" \in DOMAIN pin.args
          /\ pout.reqs[2].route = "transfer_application"
    /\ pout.editUpdates <= 1
    /\ (pout.pc = "done" /\ pout.applied > 0) =>
          /\ pout.editUpdates = 1
          /\ Reflects(pout.local, pout.server)
====
